---- MODULE Spec2Model ----
(***************************************************************************)
(* State-machine model of the PyGui scene graph: the component tree        *)
(* (component.py), the engine root (core.py), the address bus (bus.py)     *)
(* and the message handlers of the widgets (component.py, utilities.py,    *)
(* window.py).                                                             *)
(***************************************************************************)
EXTENDS Integers, Sequences, FiniteSets, TLC

\* ------------------------------------------------------------------ bounds
NumComps == 4        \* number of component objects, the engine included
QueueCap == 2        \* max_queue_size handed to AddressBus(...)
MaxPosts == 3        \* envelopes posted from outside the handlers in one run
MaxX == 3            \* the display is MaxX + 1 pixels wide
MaxY == 1            \* and MaxY + 1 pixels high
MaxDt == 5           \* longest frame time, in units of 50 ms

\* --------------------------------------------------------------- constants
BROADCAST == 0 - 1
MASTER == 0
Nil == 0 - 1         \* Python None for a component reference
NoAddr == 0 - 1      \* Component.address of a component that holds no address
Foreign == NumComps + 5   \* an address that no component of the model ever holds
max_points == 2      \* Performance.max_points (the widget's width in pixels)
bus_freq == 4        \* Engine.bus_freq: 0.2 s, in units of 50 ms

Engine == 0
Comps == 0 .. (NumComps - 1)

\* the class of which the application constructs every component object
ClassOf(c) ==
    IF c = 0 THEN "Engine"
    ELSE IF c = 1 THEN "Window"
    ELSE IF c = 2 THEN "Pulsar"
    ELSE IF c = 3 THEN "Performance"
    ELSE "Component"

VARIABLES
    parent,       \* Component.parent
    children,     \* Component.children (z-order: last is topmost)
    redraw,       \* Component.redraw
    rootCache,    \* Component._root_cache (Nil: attribute absent)
    terminated,   \* Dispatcher.terminated
    address,      \* Component.address
    components,   \* AddressBus._components, an insertion-ordered dict
    next_addr,    \* AddressBus._next_addr
    messages,     \* AddressBus._messages
    running,      \* Engine.running
    bus_accumulator, \* Engine.bus_accumulator, in units of 50 ms
    is_active,    \* Pulsar.is_active
    samples,      \* len(Performance.graph_buffer)
    pc,           \* position inside AddressBus.pump
    queue,        \* pump: what is left of the local list `queue`
    cur,          \* pump: the envelope `msg` of the current iteration
    targets,      \* pump: what is left of `targets` for the current envelope
    ui,           \* type(component), Component.visible, enabled, passthrough,
                  \* active and rect, Window.can_move, dragging and drag_offset
    hist          \* history of the run (observation only)

vars == <<parent, children, redraw, rootCache, terminated, address, components,
          next_addr, messages, running, bus_accumulator, is_active, samples, pc,
          queue, cur, targets, ui, hist>>

\* type(c): the class of the object, fixed at its construction
Kind(c) == ui.cls[c]

\* ----------------------------------------------------------------- helpers
Range(s) == {s[i] : i \in 1 .. Len(s)}

RECURSIVE SeqRemoveFirst(_, _)
\* list.remove(x): drops the first occurrence of x
SeqRemoveFirst(s, x) ==
    IF s = <<>> THEN <<>>
    ELSE IF Head(s) = x THEN Tail(s)
    ELSE <<Head(s)>> \o SeqRemoveFirst(Tail(s), x)

RECURSIVE Count(_, _)
Count(s, x) ==
    IF s = <<>> THEN 0
    ELSE (IF Head(s) = x THEN 1 ELSE 0) + Count(Tail(s), x)

RECURSIVE Ancestors(_, _)
\* the strict ancestors of c along the parent references
Ancestors(par, c) ==
    IF par[c] = Nil THEN {} ELSE {par[c]} \cup Ancestors(par, par[c])

RECURSIVE Descendants(_, _)
\* every node below c in the child lists
Descendants(ch, c) ==
    Range(ch[c]) \cup UNION {Descendants(ch, d) : d \in Range(ch[c])}

\* The program state the operations work on, as one record; `raised` says
\* that an exception is propagating, `consumed` is the value returned by the
\* last handle_event or process_event, `hist` is the observation record.
State ==
    [parent |-> parent, children |-> children, redraw |-> redraw,
     rootCache |-> rootCache, terminated |-> terminated, address |-> address,
     components |-> components, next_addr |-> next_addr,
     messages |-> messages, running |-> running,
     bus_accumulator |-> bus_accumulator, is_active |-> is_active,
     samples |-> samples, ui |-> ui, raised |-> FALSE, consumed |-> FALSE,
     hist |-> hist]

\* the assignment of the fields of the record to the variables; the record
\* is computed once
Commit(S) ==
    \E T \in {S} :
        /\ parent' = T.parent
        /\ children' = T.children
        /\ redraw' = T.redraw
        /\ rootCache' = T.rootCache
        /\ terminated' = T.terminated
        /\ address' = T.address
        /\ components' = T.components
        /\ next_addr' = T.next_addr
        /\ messages' = T.messages
        /\ running' = T.running
        /\ bus_accumulator' = T.bus_accumulator
        /\ is_active' = T.is_active
        /\ samples' = T.samples
        /\ ui' = T.ui
        /\ hist' = T.hist

\* pygame events of the model: a press or a release of a mouse button at a
\* point, a pointer motion to a point, a key press
Event(t, b, x, y, k) == [type |-> t, button |-> b, pos |-> <<x, y>>, key |-> k]
NoEvent == Event("NOEVENT", 0, 0, 0, "")

\* The observation record: the last call (op, arg, ret), what the node of a
\* destroy call was attached to (was), the envelopes accepted so far
\* (nextId), the envelopes the application posted (posts) and, for the pump
\* call in progress, the queue and the registry
\* it started with, the envelopes taken, the handler calls made, and the
\* envelopes that post accepted during this pump and during the one before;
\* for the last dispatch of an input event the event (ev), the value
\* returned (consumed), the nodes whose handle_event ran (offered) and
\* returned True (took), the nodes whose process_event ran (processed), the
\* trigger calls made (fired); for the frame loop the frame time since the
\* last call of pump (since) and, for every envelope in the queue, the
\* number of frames begun since post accepted it (waited).
NoHist ==
    [op |-> "init", arg |-> Nil, ret |-> FALSE,
     was |-> [parent |-> Nil, desc |-> {}],
     posts |-> 0, nextId |-> 1, accepted |-> {}, owed |-> {},
     snap |-> <<>>, regStart |-> {}, regTurn |-> {}, turns |-> <<>>,
     log |-> <<>>, missed |-> {},
     ev |-> NoEvent, consumed |-> FALSE, offered |-> <<>>, took |-> {},
     processed |-> <<>>, fired |-> <<>>,
     since |-> 0, waited |-> <<>>]

\* the record of a call made by the application outside of pump
Called(S, o, a) ==
    [S EXCEPT !.hist.op = o, !.hist.arg = a,
              !.hist.was = [parent |-> Nil, desc |-> {}]]

\* ------------------------------------------------------------- address bus
RECURSIVE DictIndex(_, _)
\* position of key a in the dict, 0 when the key is absent
DictIndex(d, a) ==
    IF d = <<>> THEN 0
    ELSE IF d[Len(d)].addr = a THEN Len(d)
    ELSE DictIndex(SubSeq(d, 1, Len(d) - 1), a)

\* self._components[a] = c
DictSet(d, a, c) ==
    IF DictIndex(d, a) = 0 THEN Append(d, [addr |-> a, comp |-> c])
    ELSE [d EXCEPT ![DictIndex(d, a)] = [addr |-> a, comp |-> c]]

\* self._components.pop(a, None)
DictPop(d, a) ==
    IF DictIndex(d, a) = 0 THEN d
    ELSE SubSeq(d, 1, DictIndex(d, a) - 1) \o SubSeq(d, DictIndex(d, a) + 1, Len(d))

\* self._components.get(a)
DictGet(d, a) == IF DictIndex(d, a) = 0 THEN Nil ELSE d[DictIndex(d, a)].comp

DictKeys(d) == {d[i].addr : i \in 1 .. Len(d)}
DictValues(d) == [i \in 1 .. Len(d) |-> d[i].comp]

\* AddressBus.register, with a counter that is not advanced
registerNoAdvance(S, c) ==
    IF S.address[c] < 0
    THEN [S EXCEPT !.address[c] = S.next_addr,
                   !.components = DictSet(S.components, S.next_addr, c)]
    ELSE [S EXCEPT !.components = DictSet(S.components, S.address[c], c)]

\* AddressBus.register
register(S, c) ==
    IF S.address[c] < 0
    THEN [S EXCEPT !.address[c] = S.next_addr,
                   !.next_addr = S.next_addr + 1,
                   !.components = DictSet(S.components, S.next_addr, c)]
    ELSE [S EXCEPT !.components = DictSet(S.components, S.address[c], c)]

\* AddressBus.unregister
unregister(S, c) ==
    [S EXCEPT !.components = DictPop(S.components, S.address[c])]

\* ---------------------------------------------------------- component tree
RECURSIVE resetMarksClean(_, _)
\* Component.reset that writes False into the flags
resetMarksClean(S, c) ==
    LET S1 == [S EXCEPT !.redraw[c] = FALSE]
    IN IF S.parent[c] # Nil THEN resetMarksClean(S1, S.parent[c]) ELSE S1

RECURSIVE reset(_, _)
\* Component.reset
reset(S, c) ==
    LET S1 == [S EXCEPT !.redraw[c] = TRUE]
    IN IF S.parent[c] # Nil THEN reset(S1, S.parent[c]) ELSE S1

\* Component.remove
ComponentRemove(S, p, c) ==
    IF c \in Range(S.children[p])
    THEN reset([S EXCEPT !.children[p] = SeqRemoveFirst(S.children[p], c),
                         !.parent[c] = Nil], p)
    ELSE S

\* Engine.remove
EngineRemove(S, p, c) == unregister(ComponentRemove(S, p, c), c)

\* child.parent.remove(child), dispatched on the class of the parent
remove(S, p, c) ==
    IF Kind(p) = "Engine" THEN EngineRemove(S, p, c) ELSE ComponentRemove(S, p, c)

\* Component.add without the detach from the previous parent
ComponentAddNoDetach(S, p, c) ==
    reset([S EXCEPT !.children[p] = Append(S.children[p], c),
                    !.parent[c] = p], p)

\* Component.add
ComponentAdd(S, p, c) ==
    LET S1 == IF S.parent[c] # Nil THEN remove(S, S.parent[c], c) ELSE S
    IN reset([S1 EXCEPT !.children[p] = Append(S1.children[p], c),
                        !.parent[c] = p], p)

\* Engine.add
EngineAdd(S, p, c) == register(ComponentAdd(S, p, c), c)

\* parent.add(child), dispatched on the class of the parent
add(S, p, c) ==
    IF Kind(p) = "Engine" THEN EngineAdd(S, p, c) ELSE ComponentAdd(S, p, c)

\* ------------------------------------------------------------------ root
RECURSIVE rootValue(_, _)
\* the value returned by root(): Engine.root for the engine, else
\* Component.root with its per-node cache
rootValue(S, c) ==
    IF Kind(c) = "Engine" THEN c
    ELSE IF S.rootCache[c] # Nil THEN S.rootCache[c]
    ELSE IF S.parent[c] = Nil THEN c
    ELSE rootValue(S, S.parent[c])

RECURSIVE root(_, _)
\* the state after root(): every node on the way up that had no cached
\* root now holds one
root(S, c) ==
    IF Kind(c) = "Engine" \/ S.rootCache[c] # Nil THEN S
    ELSE IF S.parent[c] = Nil THEN [S EXCEPT !.rootCache[c] = c]
    ELSE [root(S, S.parent[c]) EXCEPT !.rootCache[c] = rootValue(S, S.parent[c])]

\* ------------------------------------------------------------------ post
\* response codes (bus.Response) and payloads of the envelopes of the model
\* data: "none" = None, "meta" = the dict of get_metadata() (no 'time' key),
\* "time" = a dict with type 'Window' and a 'time' key, "self" = the sender
Packet(rcv, snd, code, payload) ==
    [receiver |-> rcv, sender |-> snd, rs |-> code, data |-> payload, id |-> 0]

\* the value of pump's `msg` outside of the loop
NoPacket == Packet(NoAddr, NoAddr, "", "none")

\* AddressBus.post without the capacity test
postUnbounded(S, m) ==
    [S EXCEPT !.messages = Append(S.messages, [m EXCEPT !.id = S.hist.nextId]),
              !.hist.ret = TRUE,
              !.hist.nextId = S.hist.nextId + 1,
              !.hist.accepted = S.hist.accepted \cup {S.hist.nextId}]

\* AddressBus.post that puts the envelope at the head of the list
postAtHead(S, m) ==
    IF Len(S.messages) >= QueueCap
    THEN [S EXCEPT !.hist.ret = FALSE]
    ELSE [S EXCEPT !.messages = <<[m EXCEPT !.id = S.hist.nextId]>> \o S.messages,
                   !.hist.ret = TRUE,
                   !.hist.nextId = S.hist.nextId + 1,
                   !.hist.accepted = S.hist.accepted \cup {S.hist.nextId}]

\* AddressBus.post; the envelope is stamped with the number of its acceptance
post(S, m) ==
    IF Len(S.messages) >= QueueCap
    THEN [S EXCEPT !.hist.ret = FALSE]
    ELSE [S EXCEPT !.messages = Append(S.messages, [m EXCEPT !.id = S.hist.nextId]),
                   !.hist.ret = TRUE,
                   !.hist.nextId = S.hist.nextId + 1,
                   !.hist.accepted = S.hist.accepted \cup {S.hist.nextId}]

\* hoster.bus.post(...): only the engine holds a bus (Component.bus is None),
\* on any other hoster the attribute access raises AttributeError
hosterPost(S, hoster, m) ==
    IF Kind(hoster) = "Engine" THEN post(S, m) ELSE [S EXCEPT !.raised = TRUE]

\* --------------------------------------------------------------- destroy
RECURSIVE destroy(_, _)
RECURSIVE destroyEach(_, _)

\* Component.destroy
ComponentDestroy(S, c) ==
    LET S1 == destroyEach(S, S.children[c])
    IN IF S1.raised THEN S1
       ELSE [S1 EXCEPT !.children[c] = <<>>, !.parent[c] = Nil]

\* Window.destroy
WindowDestroy(S, c) ==
    LET S1 == root(S, c)
        hoster == rootValue(S, c)
        S2 == hosterPost(S1, hoster,
                         Packet(S1.address[hoster], S1.address[c], "M_BYE", "self"))
    IN IF S2.raised THEN S2 ELSE ComponentDestroy(S2, c)

\* Engine.destroy
EngineDestroy(S, c) == ComponentDestroy([S EXCEPT !.running = FALSE], c)

\* self.destroy(), dispatched on the class of the component
destroy(S, c) ==
    IF Kind(c) = "Engine" THEN EngineDestroy(S, c)
    ELSE IF Kind(c) = "Window" THEN WindowDestroy(S, c)
    ELSE ComponentDestroy(S, c)

\* for child in self.children[:]: child.destroy()
destroyEach(S, list) ==
    IF list = <<>> \/ S.raised THEN S
    ELSE destroyEach(destroy(S, Head(list)), Tail(list))

\* -------------------------------------------------------- handle_message
\* Component.handle_message that answers a discovery reply with a new
\* discovery request
ComponentHandleMessageEcho(S, c, m) ==
    LET S1 == root(S, c)
        hoster == rootValue(S, c)
    IN IF m.sender = S1.address[c] THEN S1
       ELSE IF m.rs = "M_PING"
            THEN hosterPost(S1, hoster, Packet(m.sender, S1.address[c], "M_PONG", "meta"))
       ELSE IF m.rs = "M_PONG"
            THEN hosterPost(S1, hoster, Packet(m.sender, S1.address[c], "M_PING", "none"))
       ELSE IF m.rs = "M_SHUTDOWN" THEN destroy(S1, c)
       ELSE IF m.rs = "M_REDRAW"
            THEN LET S2 == hosterPost(S1, hoster,
                                      Packet(m.sender, S1.address[c], "M_OK", "meta"))
                 IN IF S2.raised THEN S2 ELSE reset(S2, c)
       ELSE S1

\* Component.handle_message
ComponentHandleMessage(S, c, m) ==
    LET S1 == root(S, c)
        hoster == rootValue(S, c)
    IN IF m.sender = S1.address[c] THEN S1
       ELSE IF m.rs = "M_PING"
            THEN hosterPost(S1, hoster, Packet(m.sender, S1.address[c], "M_PONG", "meta"))
       ELSE IF m.rs = "M_SHUTDOWN" THEN destroy(S1, c)
       ELSE IF m.rs = "M_REDRAW"
            THEN LET S2 == hosterPost(S1, hoster,
                                      Packet(m.sender, S1.address[c], "M_OK", "meta"))
                 IN IF S2.raised THEN S2 ELSE reset(S2, c)
       ELSE S1

\* Engine.handle_message
EngineHandleMessage(S, c, m) ==
    IF m.sender = S.address[c] THEN S ELSE ComponentHandleMessage(S, c, m)

\* Pulsar.handle_message and Pulsar._trigger_activity
PulsarHandleMessage(S, c, m) ==
    LET S1 == ComponentHandleMessage(S, c, m)
    IN IF S1.raised THEN S1
       ELSE [S1 EXCEPT !.is_active[c] = TRUE, !.redraw[c] = TRUE]

\* Performance.handle_message and Performance._add_performance_sample
PerformanceHandleMessage(S, c, m) ==
    LET S1 == ComponentHandleMessage(S, c, m)
    IN IF S1.raised THEN S1
       ELSE IF m.rs = "M_PONG" /\ m.data = "time"
            THEN [S1 EXCEPT !.samples[c] =
                                IF S1.samples[c] + 1 > max_points
                                THEN S1.samples[c] ELSE S1.samples[c] + 1,
                            !.redraw[c] = TRUE]
       ELSE S1

\* comp.handle_message(msg), dispatched on the class of the component
handle_message(S, c, m) ==
    IF Kind(c) = "Engine" THEN EngineHandleMessage(S, c, m)
    ELSE IF Kind(c) = "Pulsar" THEN PulsarHandleMessage(S, c, m)
    ELSE IF Kind(c) = "Performance" THEN PerformanceHandleMessage(S, c, m)
    ELSE ComponentHandleMessage(S, c, m)

\* Component.register_all
RECURSIVE register_all(_, _)
RECURSIVE registerEach(_, _)
register_all(S, c) == registerEach(register(S, c), S.children[c])

\* for child in self.children: child.register_all(bus)
registerEach(S, list) ==
    IF list = <<>> THEN S
    ELSE registerEach(register_all(S, Head(list)), Tail(list))

\* ------------------------------------------------------------------- init
\* the fields Component.__init__ and Window.__init__ set, for components of
\* one pixel at the origin
NewUi ==
    [cls |-> [c \in Comps |-> ClassOf(c)],
     visible |-> [c \in Comps |-> TRUE],
     enabled |-> [c \in Comps |-> TRUE],
     passthrough |-> [c \in Comps |-> FALSE],
     active |-> [c \in Comps |-> FALSE],
     rect |-> [c \in Comps |-> [x |-> 0, y |-> 0, w |-> 1, h |-> 1]],
     can_move |-> [c \in Comps |-> TRUE],
     dragging |-> [c \in Comps |-> FALSE],
     drag_offset |-> [c \in Comps |-> <<0, 0>>]]

\* The state after Engine.__init__ and the construction of the other
\* components: nothing attached, the engine registered at address 0.
InitCommon ==
    /\ redraw = [c \in Comps |-> TRUE]
    /\ rootCache = [c \in Comps |-> Nil]
    /\ terminated = [c \in Comps |-> FALSE]
    /\ messages = <<>>
    /\ running = TRUE
    /\ bus_accumulator = 0
    /\ is_active = [c \in Comps |-> FALSE]
    /\ samples = [c \in Comps |-> 0]
    /\ pc = "idle"
    /\ queue = <<>>
    /\ cur = NoPacket
    /\ targets = <<>>

InitTree ==
    /\ InitCommon
    /\ parent = [c \in Comps |-> Nil]
    /\ children = [c \in Comps |-> <<>>]
    /\ address = [c \in Comps |-> IF c = Engine THEN 0 ELSE NoAddr]
    /\ components = <<[addr |-> 0, comp |-> Engine]>>
    /\ next_addr = 1
    /\ ui = NewUi
    /\ hist = NoHist

\* The tree of builders.WindowBase.finalize: one window under the engine,
\* every other component a child of the window.
BuiltParent == [c \in Comps |-> IF c = Engine THEN Nil ELSE IF c = 1 THEN Engine ELSE 1]
BuiltChildren ==
    [c \in Comps |-> IF c = Engine THEN <<1>>
                     ELSE IF c = 1 THEN [i \in 1 .. (NumComps - 2) |-> i + 1]
                     ELSE <<>>]

\* After engine.add(window) and window.add(widget) for every widget: the
\* engine and the window are registered, the widgets are not yet.
InitBuilt ==
    /\ InitCommon
    /\ parent = BuiltParent
    /\ children = BuiltChildren
    /\ address = [c \in Comps |-> IF c <= 1 THEN c ELSE NoAddr]
    /\ components = <<[addr |-> 0, comp |-> Engine], [addr |-> 1, comp |-> 1]>>
    /\ next_addr = 2
    /\ ui = NewUi
    /\ hist = NoHist

\* The running application: every component registered, in the order of
\* its construction.
InitRunning ==
    /\ InitCommon
    /\ parent = BuiltParent
    /\ children = BuiltChildren
    /\ address = [c \in Comps |-> c]
    /\ components = [i \in 1 .. NumComps |-> [addr |-> i - 1, comp |-> i - 1]]
    /\ next_addr = NumComps
    /\ ui = NewUi
    /\ hist = NoHist

PumpVarsUnchanged == UNCHANGED <<pc, queue, cur, targets>>

\* parent.add(child) called by the application; the caller keeps the tree
\* acyclic and never attaches the engine.
Add(p, c) ==
    /\ pc = "idle"
    /\ c # Engine
    /\ c # p
    /\ c \notin Ancestors(parent, p)
    /\ p \notin Descendants(children, c)
    /\ Commit(Called(add(State, p, c), "add", Nil))
    /\ PumpVarsUnchanged

\* parent.remove(child) called by the application
Remove(p, c) ==
    /\ pc = "idle"
    /\ c # Engine
    /\ Commit(Called(remove(State, p, c), "remove", Nil))
    /\ PumpVarsUnchanged

\* bus.register(component) called by the application
Register(c) ==
    /\ pc = "idle"
    /\ Commit(Called(register(State, c), "register", c))
    /\ PumpVarsUnchanged

\* component.register_all(bus) called by the application
RegisterAll(c) ==
    /\ pc = "idle"
    /\ Commit(Called(register_all(State, c), "register_all", c))
    /\ PumpVarsUnchanged

\* bus.unregister(component) called by the application
Unregister(c) ==
    /\ pc = "idle"
    /\ Commit(Called(unregister(State, c), "unregister", c))
    /\ PumpVarsUnchanged

\* component.destroy() called by the application (a window's close button,
\* the engine on QUIT); a call that raises leaves what it did before raising
Destroy(c) ==
    /\ pc = "idle"
    /\ LET S == destroy(State, c)
       IN Commit([S EXCEPT !.hist.op = IF S.raised THEN "destroy-raised" ELSE "destroy",
                           !.hist.arg = c,
                           !.hist.was = [parent |-> parent[c],
                                         desc |-> Descendants(children, c)]])
    /\ PumpVarsUnchanged

NextTree ==
    \/ \E p \in Comps, c \in Comps : Add(p, c)
    \/ \E p \in Comps, c \in Comps : Remove(p, c)

SpecTree == InitTree /\ [][NextTree]_vars

\* -------------------------------------------------------------- the bus
\* the envelopes the application posts
EnvPackets ==
    {Packet(r, s, code, "none") :
        r \in {BROADCAST, 1, 2}, s \in {Foreign, 2}, code \in {"M_PING", "M_SHUTDOWN"}}
    \cup {Packet(3, s, "M_PONG", "time") : s \in {Foreign, 3}}
    \cup {Packet(Foreign, Foreign, "M_PING", "none")}

\* bus.post(msg) called by the application
Post(m) ==
    /\ pc = "idle"
    /\ hist.posts < MaxPosts
    /\ Commit([Called(post(State, m), "post", Nil) EXCEPT !.hist.posts = hist.posts + 1])
    /\ PumpVarsUnchanged

RegisteredSet(d) == Range(DictValues(d))

\* pump: `queue = self._messages; if not queue: return; self._messages = []`
PumpBegin ==
    /\ pc = "idle"
    /\ IF messages = <<>>
       THEN /\ Commit(Called(State, "pump", Nil))
            /\ PumpVarsUnchanged
       ELSE /\ Commit([State EXCEPT
                    !.messages = <<>>,
                    !.hist = [hist EXCEPT !.op = "pump", !.arg = Nil,
                                          !.was = [parent |-> Nil, desc |-> {}],
                                          !.snap = messages,
                                          !.regStart = RegisteredSet(components),
                                          !.owed = hist.accepted,
                                          !.accepted = {}]])
            /\ pc' = "loop"
            /\ queue' = messages
            /\ UNCHANGED <<cur, targets>>

\* the components of the dict in its order, those at address a left out
RECURSIVE DictValuesBut(_, _)
DictValuesBut(d, a) ==
    IF d = <<>> THEN <<>>
    ELSE (IF Head(d).addr = a THEN <<>> ELSE <<Head(d).comp>>) \o DictValuesBut(Tail(d), a)

\* pump that hands an envelope for an address nobody holds to the first
\* component of the registry
targetsFallback(d, m) ==
    IF m.receiver = BROADCAST THEN DictValues(d)
    ELSE IF DictGet(d, m.receiver) = Nil
         THEN (IF d = <<>> THEN <<>> ELSE <<Head(d).comp>>)
    ELSE <<DictGet(d, m.receiver)>>

\* pump with a broadcast that leaves out the sender of the envelope
targetsSkipSender(d, m) ==
    IF m.receiver = BROADCAST THEN DictValuesBut(d, m.sender)
    ELSE IF DictGet(d, m.receiver) = Nil THEN <<>>
    ELSE <<DictGet(d, m.receiver)>>

\* pump: the components the envelope is handed to, a snapshot of the
\* registry for a broadcast, else the component at the receiver address
targetsOf(d, m) ==
    IF m.receiver = BROADCAST THEN DictValues(d)
    ELSE IF DictGet(d, m.receiver) = Nil THEN <<>>
    ELSE <<DictGet(d, m.receiver)>>

\* pump: `for msg in queue:` takes the next envelope and selects its targets
Take ==
    /\ pc = "loop"
    /\ LET m == Head(queue)
           tg == targetsOf(components, m)
       IN /\ cur' = m
          /\ queue' = Tail(queue)
          /\ targets' = tg
          /\ pc' = IF tg # <<>> THEN "deliver"
                   ELSE IF Tail(queue) = <<>> THEN "done" ELSE "loop"
          /\ Commit([State EXCEPT
                  !.hist.turns = Append(hist.turns, m.id),
                  !.hist.regTurn = RegisteredSet(components),
                  !.hist.missed = IF tg = <<>> THEN hist.missed \cup {m.id}
                                  ELSE hist.missed])

\* the envelopes of list b that list a does not hold
NewIn(a, b) == SubSeq(b, Len(a) + 1, Len(b))

\* pump without the swap of the list: the loop runs over the very list that
\* post appends to
DeliverSameList ==
    /\ pc = "deliver"
    /\ LET c == Head(targets)
           S == handle_message(State, c, cur)
       IN /\ Commit([S EXCEPT !.hist.log = Append(hist.log, [id |-> cur.id, comp |-> c])])
          /\ targets' = IF S.raised THEN targets ELSE Tail(targets)
          /\ queue' = queue \o NewIn(messages, S.messages)
          /\ pc' = IF S.raised THEN "raised"
                   ELSE IF Tail(targets) # <<>> THEN "deliver"
                   ELSE IF queue' = <<>> THEN "done" ELSE "loop"
          /\ UNCHANGED cur

\* pump: the rest of a loop iteration, S being the state in which
\* `handler(msg)` has left the program; an exception of the handler leaves
\* pump at once
Delivered(S) ==
    /\ Commit([S EXCEPT !.hist.log =
                   Append(hist.log, [id |-> cur.id, comp |-> Head(targets)])])
    /\ targets' = IF S.raised THEN targets ELSE Tail(targets)
    /\ pc' = IF S.raised THEN "raised"
             ELSE IF Tail(targets) # <<>> THEN "deliver"
             ELSE IF queue = <<>> THEN "done" ELSE "loop"
    /\ UNCHANGED <<queue, cur>>

\* pump: `handler(msg)` on the next target, the handler being the one of the
\* component's class
Deliver ==
    /\ pc = "deliver"
    /\ Delivered(handle_message(State, Head(targets), cur))

\* What a handler of the application may do on top of the handler of its
\* base class, the way Pulsar and Performance extend Component's: it changes
\* the registry during the dispatch, which pump's snapshot is there to allow.
HookCalls == {[call |-> k, comp |-> x] : k \in {"register", "unregister"}, x \in {2, 3}}

hookCall(S, h) ==
    IF S.raised THEN S
    ELSE IF h.call = "register" THEN register(S, h.comp)
    ELSE unregister(S, h.comp)

\* pump: `handler(msg)` on the next target, the handler being an override
\* that calls the base handler and then bus.register or bus.unregister
DeliverHook(h) ==
    /\ pc = "deliver"
    /\ Delivered(hookCall(handle_message(State, Head(targets), cur), h))

\* pump is left, by return or by the exception: its locals are gone
PumpReturn ==
    /\ pc \in {"done", "raised"}
    /\ pc' = "idle"
    /\ queue' = <<>>
    /\ cur' = NoPacket
    /\ targets' = <<>>
    /\ Commit([State EXCEPT
            !.hist = [NoHist EXCEPT !.op = "return", !.posts = hist.posts,
                                    !.nextId = hist.nextId,
                                    !.accepted = hist.accepted]])

NextBus ==
    \/ \E m \in EnvPackets : Post(m)
    \/ PumpBegin
    \/ Take
    \/ Deliver
    \/ PumpReturn

SpecBus == InitRunning /\ [][NextBus]_vars

\* The bus with handlers that change the registry during the dispatch.
HookPackets ==
    {Packet(BROADCAST, s, "M_PING", "none") : s \in {Foreign, 2}}
    \cup {Packet(3, Foreign, "M_PING", "none")}

NextHook ==
    \/ \E m \in HookPackets : Post(m)
    \/ PumpBegin
    \/ Take
    \/ Deliver
    \/ \E h \in HookCalls : DeliverHook(h)
    \/ PumpReturn

SpecHook == InitRunning /\ [][NextHook]_vars

\* ---------------------------------------------------------- registration
NextReg ==
    \/ \E c \in Comps : Register(c)
    \/ \E c \in Comps : RegisterAll(c)
    \/ \E c \in Comps : Unregister(c)

SpecReg == InitBuilt /\ [][NextReg]_vars

\* ---------------------------------------------------------------- destroy
NextDestroy ==
    \/ \E c \in Comps : Register(c)
    \/ \E c \in Comps : RegisterAll(c)
    \/ \E c \in Comps : Destroy(c)

SpecDestroy == InitBuilt /\ [][NextDestroy]_vars

\* ------------------------------------------------------------- discovery
\* The bus of an application that takes components off the engine between
\* two pumps and sends discovery requests.
PingPackets ==
    {Packet(r, s, "M_PING", "none") : r \in {BROADCAST, 2}, s \in {Foreign, 2}}

NextDiscovery ==
    \/ \E m \in PingPackets : Post(m)
    \/ \E c \in Comps : Remove(Engine, c)
    \/ PumpBegin
    \/ Take
    \/ Deliver
    \/ PumpReturn

SpecDiscovery == InitRunning /\ [][NextDiscovery]_vars

\* --------------------------------------------------------------- geometry
RECURSIVE originSum(_, _)
\* get_absolute_rect: the sum of rect.x and rect.y over p and the parents
\* above it (`while parent: ... parent = parent.parent`)
originSum(S, p) ==
    IF p = Nil THEN <<0, 0>>
    ELSE LET above == originSum(S, S.parent[p])
         IN <<S.ui.rect[p].x + above[1], S.ui.rect[p].y + above[2]>>

\* Component.get_absolute_rect that looks at the direct parent only
get_absolute_rect_parent(S, c) ==
    [x |-> S.ui.rect[c].x + (IF S.parent[c] = Nil THEN 0 ELSE S.ui.rect[S.parent[c]].x),
     y |-> S.ui.rect[c].y + (IF S.parent[c] = Nil THEN 0 ELSE S.ui.rect[S.parent[c]].y),
     w |-> S.ui.rect[c].w,
     h |-> S.ui.rect[c].h]

\* Component.get_absolute_rect
get_absolute_rect(S, c) ==
    LET above == originSum(S, S.parent[c])
    IN [x |-> S.ui.rect[c].x + above[1],
        y |-> S.ui.rect[c].y + above[2],
        w |-> S.ui.rect[c].w,
        h |-> S.ui.rect[c].h]

\* pygame.Rect.collidepoint
collidepoint(r, pt) ==
    /\ r.x <= pt[1] /\ pt[1] < r.x + r.w
    /\ r.y <= pt[2] /\ pt[2] < r.y + r.h

\* Component.is_inside
is_inside(S, c, pt) == collidepoint(get_absolute_rect(S, c), pt)

\* the position setter: `self.rect.x, self.rect.y = value; self.reset()`
set_position(S, c, x, y) ==
    reset([S EXCEPT !.ui.rect[c].x = x, !.ui.rect[c].y = y], c)

\* the size setter: `self.rect.width, self.rect.height = max(1, value[0]),
\* max(1, value[1]); self.reset()`
set_size(S, c, w, h) ==
    reset([S EXCEPT !.ui.rect[c].w = IF w > 1 THEN w ELSE 1,
                    !.ui.rect[c].h = IF h > 1 THEN h ELSE 1], c)

\* ----------------------------------------------------------- input events
\* Component.trigger: the handlers registered for the kind are called; the
\* call is put on record
trigger(S, c, kind) ==
    [S EXCEPT !.hist.fired = Append(S.hist.fired, [comp |-> c, kind |-> kind])]

RECURSIVE deactivateEach(_, _, _)
\* the loop of Component.deactivate_container
deactivateEach(S, list, keep) ==
    IF list = <<>> THEN S
    ELSE IF Head(list) # keep /\ S.ui.active[Head(list)]
         THEN deactivateEach(trigger([S EXCEPT !.ui.active[Head(list)] = FALSE],
                                     Head(list), "blur"),
                             Tail(list), keep)
    ELSE deactivateEach(S, Tail(list), keep)

RECURSIVE deactivateEachSilent(_, _, _)
deactivateEachSilent(S, list, keep) ==
    IF list = <<>> THEN S
    ELSE IF Head(list) # keep /\ S.ui.active[Head(list)]
         THEN deactivateEachSilent([S EXCEPT !.ui.active[Head(list)] = FALSE],
                                   Tail(list), keep)
    ELSE deactivateEachSilent(S, Tail(list), keep)

\* Component.deactivate_container that clears the flags without a blur
deactivate_containerSilent(S, p, keep) == deactivateEachSilent(S, S.children[p], keep)

\* Component.deactivate_container
deactivate_container(S, p, keep) == deactivateEach(S, S.children[p], keep)

\* Component.process_event that never deactivates the siblings
ComponentProcessEventNoExclusion(S, c, ev) ==
    IF S.ui.passthrough[c] THEN [S EXCEPT !.consumed = FALSE]
    ELSE IF ev.type = "MOUSEBUTTONDOWN" /\ ev.button = 1
         THEN IF is_inside(S, c, ev.pos)
              THEN [trigger([trigger(S, c, "click") EXCEPT !.ui.active[c] = TRUE],
                            c, "focus")
                    EXCEPT !.consumed = TRUE]
              ELSE IF S.ui.active[c]
                   THEN [trigger([S EXCEPT !.ui.active[c] = FALSE], c, "blur")
                         EXCEPT !.consumed = FALSE]
              ELSE [S EXCEPT !.consumed = FALSE]
    ELSE IF ev.type = "MOUSEMOTION" /\ is_inside(S, c, ev.pos)
         THEN [trigger(S, c, "hover") EXCEPT !.consumed = TRUE]
    ELSE IF ev.type = "KEYDOWN" /\ S.ui.active[c]
         THEN [trigger(S, c, "keypress") EXCEPT !.consumed = TRUE]
    ELSE [S EXCEPT !.consumed = FALSE]

\* Component.process_event that reports an outside press on an active node
\* as consumed
ComponentProcessEventBlurConsumes(S, c, ev) ==
    IF S.ui.passthrough[c] THEN [S EXCEPT !.consumed = FALSE]
    ELSE IF ev.type = "MOUSEBUTTONDOWN" /\ ev.button = 1
         THEN IF is_inside(S, c, ev.pos)
              THEN LET S1 == IF S.parent[c] # Nil /\ ~S.ui.active[c]
                             THEN deactivate_container(S, S.parent[c], c)
                             ELSE S
                   IN [trigger([trigger(S1, c, "click") EXCEPT !.ui.active[c] = TRUE],
                               c, "focus")
                       EXCEPT !.consumed = TRUE]
              ELSE IF S.ui.active[c]
                   THEN [trigger([S EXCEPT !.ui.active[c] = FALSE], c, "blur")
                         EXCEPT !.consumed = TRUE]
              ELSE [S EXCEPT !.consumed = FALSE]
    ELSE IF ev.type = "MOUSEMOTION" /\ is_inside(S, c, ev.pos)
         THEN [trigger(S, c, "hover") EXCEPT !.consumed = TRUE]
    ELSE IF ev.type = "KEYDOWN" /\ S.ui.active[c]
         THEN [trigger(S, c, "keypress") EXCEPT !.consumed = TRUE]
    ELSE [S EXCEPT !.consumed = FALSE]

\* Component.process_event
ComponentProcessEvent(S, c, ev) ==
    IF S.ui.passthrough[c] THEN [S EXCEPT !.consumed = FALSE]
    ELSE IF ev.type = "MOUSEBUTTONDOWN" /\ ev.button = 1
         THEN IF is_inside(S, c, ev.pos)
              THEN LET S1 == IF S.parent[c] # Nil /\ ~S.ui.active[c]
                             THEN deactivate_container(S, S.parent[c], c)
                             ELSE S
                   IN [trigger([trigger(S1, c, "click") EXCEPT !.ui.active[c] = TRUE],
                               c, "focus")
                       EXCEPT !.consumed = TRUE]
              ELSE IF S.ui.active[c]
                   THEN [trigger([S EXCEPT !.ui.active[c] = FALSE], c, "blur")
                         EXCEPT !.consumed = FALSE]
              ELSE [S EXCEPT !.consumed = FALSE]
    ELSE IF ev.type = "MOUSEMOTION" /\ is_inside(S, c, ev.pos)
         THEN [trigger(S, c, "hover") EXCEPT !.consumed = TRUE]
    ELSE IF ev.type = "KEYDOWN" /\ S.ui.active[c]
         THEN [trigger(S, c, "keypress") EXCEPT !.consumed = TRUE]
    ELSE [S EXCEPT !.consumed = FALSE]

\* Window.hitbox_test without the test of the rectangle
hitbox_testAnywhere(S, c, pt) ==
    pt[2] - get_absolute_rect(S, c).y < S.ui.rect[c].h - 0

\* Window.hitbox_test, called with its default hitbox_y = 0
hitbox_test(S, c, pt) ==
    /\ is_inside(S, c, pt)
    /\ pt[2] - get_absolute_rect(S, c).y < S.ui.rect[c].h - 0

\* Component.bring_to_front that exchanges the node with the topmost child
bring_to_frontSwap(S, c) ==
    IF S.parent[c] = Nil THEN S
    ELSE IF c \notin Range(S.children[S.parent[c]]) THEN [S EXCEPT !.raised = TRUE]
    ELSE LET list == S.children[S.parent[c]]
             i == CHOOSE i \in 1 .. Len(list) : list[i] = c
         IN reset([S EXCEPT !.children[S.parent[c]] =
                                [list EXCEPT ![i] = list[Len(list)], ![Len(list)] = c]],
                  S.parent[c])

\* Component.bring_to_front; list.remove raises ValueError when the node is
\* not in the list
bring_to_front(S, c) ==
    IF S.parent[c] = Nil THEN S
    ELSE IF c \notin Range(S.children[S.parent[c]]) THEN [S EXCEPT !.raised = TRUE]
    ELSE reset([S EXCEPT !.children[S.parent[c]] =
                             Append(SeqRemoveFirst(S.children[S.parent[c]], c), c)],
               S.parent[c])

\* Component.send_to_back
send_to_back(S, c) ==
    IF S.parent[c] = Nil THEN S
    ELSE IF c \notin Range(S.children[S.parent[c]]) THEN [S EXCEPT !.raised = TRUE]
    ELSE reset([S EXCEPT !.children[S.parent[c]] =
                             <<c>> \o SeqRemoveFirst(S.children[S.parent[c]], c)],
               S.parent[c])

\* Window.snap_on: the list of the sibling windows reads child.terminated of
\* every visible sibling window, an attribute that Component.__init__ never
\* sets (AttributeError); without such a sibling the loop has nothing to do
snap_on(S, c) ==
    IF S.parent[c] = Nil THEN S
    ELSE IF \E d \in Range(S.children[S.parent[c]]) :
               d # c /\ Kind(d) = "Window" /\ S.ui.visible[d]
         THEN [S EXCEPT !.raised = TRUE]
    ELSE S

\* Window.process_event
WindowProcessEvent(S, c, ev) ==
    IF ~S.ui.can_move[c] THEN ComponentProcessEvent(S, c, ev)
    ELSE IF ev.type = "MOUSEBUTTONDOWN" /\ ev.button = 1 /\ hitbox_test(S, c, ev.pos)
         THEN [bring_to_front(
                  [S EXCEPT !.ui.dragging[c] = TRUE,
                            !.ui.drag_offset[c] =
                                <<ev.pos[1] - get_absolute_rect(S, c).x,
                                  ev.pos[2] - get_absolute_rect(S, c).y>>], c)
               EXCEPT !.consumed = TRUE]
    ELSE IF ev.type = "MOUSEBUTTONUP" /\ ev.button = 1 /\ S.ui.dragging[c]
         THEN [S EXCEPT !.ui.dragging[c] = FALSE, !.consumed = TRUE]
    ELSE IF ev.type = "MOUSEMOTION" /\ S.ui.dragging[c]
         THEN [snap_on(set_position(S, c, ev.pos[1] - S.ui.drag_offset[c][1],
                                          ev.pos[2] - S.ui.drag_offset[c][2]), c)
               EXCEPT !.consumed = TRUE]
    ELSE ComponentProcessEvent(S, c, ev)

\* self.process_event(event), dispatched on the class of the component
process_event(S, c, ev) ==
    LET S1 == [S EXCEPT !.hist.processed = Append(S.hist.processed, c)]
    IN IF Kind(c) = "Window" THEN WindowProcessEvent(S1, c, ev)
       ELSE ComponentProcessEvent(S1, c, ev)

\* reversed(self.children)
Reverse(s) == [i \in 1 .. Len(s) |-> s[Len(s) + 1 - i]]

RECURSIVE handle_event(_, _, _)
RECURSIVE offerEach(_, _, _)

\* Component.handle_event that offers the event to the children in the
\* order of the list, the bottom one first
ComponentHandleEventBackToFront(S, c, ev) ==
    IF ~S.ui.visible[c] \/ ~S.ui.enabled[c] THEN [S EXCEPT !.consumed = FALSE]
    ELSE LET S1 == offerEach(S, S.children[c], ev)
         IN IF S1.raised \/ S1.consumed THEN S1 ELSE process_event(S1, c, ev)

\* Component.handle_event
ComponentHandleEvent(S, c, ev) ==
    IF ~S.ui.visible[c] \/ ~S.ui.enabled[c] THEN [S EXCEPT !.consumed = FALSE]
    ELSE LET S1 == offerEach(S, Reverse(S.children[c]), ev)
         IN IF S1.raised \/ S1.consumed THEN S1 ELSE process_event(S1, c, ev)

\* Engine.handle_event
EngineHandleEvent(S, c, ev) ==
    IF ev.type = "KEYDOWN" /\ ev.key = "K_ESCAPE"
    THEN [S EXCEPT !.running = FALSE, !.consumed = TRUE]
    ELSE ComponentHandleEvent(S, c, ev)

\* child.handle_event(event), dispatched on the class of the component; the
\* call and a return of True are put on record
handle_event(S, c, ev) ==
    LET S0 == [S EXCEPT !.hist.offered = Append(S.hist.offered, c)]
        S1 == IF Kind(c) = "Engine" THEN EngineHandleEvent(S0, c, ev)
              ELSE ComponentHandleEvent(S0, c, ev)
    IN IF S1.consumed /\ ~S1.raised
       THEN [S1 EXCEPT !.hist.took = S1.hist.took \cup {c}]
       ELSE S1

\* for child in reversed(self.children): if child.handle_event(event): return True
offerEach(S, list, ev) ==
    IF list = <<>> THEN [S EXCEPT !.consumed = FALSE]
    ELSE LET S1 == handle_event(S, Head(list), ev)
         IN IF S1.raised \/ S1.consumed THEN S1 ELSE offerEach(S1, Tail(list), ev)

\* ------------------------------------------------------ the event loop
\* The rectangles of the components of the event loop: the engine covers the
\* display, the window all of it but the first column, the widgets are a bar
\* of three pixels and a column of two that cross when both are children of
\* the window.
EventRect(c) ==
    IF c = Engine THEN [x |-> 0, y |-> 0, w |-> MaxX + 1, h |-> MaxY + 1]
    ELSE IF ClassOf(c) = "Window" THEN [x |-> 1, y |-> 0, w |-> MaxX, h |-> MaxY + 1]
    ELSE IF c % 2 = 0 THEN [x |-> 0, y |-> 0, w |-> 3, h |-> 1]
    ELSE [x |-> 2, y |-> 0, w |-> 1, h |-> 2]

\* A second layout: the window with the first widget, the other widgets
\* next to the window as children of the engine.
SplitParent == [c \in Comps |-> IF c = Engine THEN Nil ELSE IF c = 2 THEN 1 ELSE Engine]
SplitChildren ==
    [c \in Comps |-> IF c = Engine
                     THEN <<1>> \o [i \in 1 .. (NumComps - 3) |-> i + 2]
                     ELSE IF c = 1 THEN <<2>> ELSE <<>>]

\* the flags a builder may have set on one component before the loop starts
Flags == {"none", "visible", "enabled", "passthrough"}

\* The state when Engine.run starts: one of the two layouts, at most one
\* component hidden, disabled or passthrough, the window fixed or (in the
\* built layout, with no flag set on a widget) movable, no component active.
InitEvent ==
    /\ InitCommon
    /\ address = [c \in Comps |-> c]
    /\ components = [i \in 1 .. NumComps |-> [addr |-> i - 1, comp |-> i - 1]]
    /\ next_addr = NumComps
    /\ \E split \in BOOLEAN, m \in Comps, f \in Flags, fixed \in BOOLEAN :
         /\ f = "none" => m = Engine
         /\ ~fixed => /\ ~split
                      /\ f = "none" \/ (f = "passthrough" /\ ClassOf(m) = "Window")
         /\ parent = IF split THEN SplitParent ELSE BuiltParent
         /\ children = IF split THEN SplitChildren ELSE BuiltChildren
         /\ ui = [NewUi EXCEPT
                    !.rect = [c \in Comps |-> EventRect(c)],
                    !.visible = [c \in Comps |-> ~(c = m /\ f = "visible")],
                    !.enabled = [c \in Comps |-> ~(c = m /\ f = "enabled")],
                    !.passthrough = [c \in Comps |-> c = m /\ f = "passthrough"],
                    !.can_move = [c \in Comps |-> ~fixed]]
    /\ hist = NoHist

\* the events pygame.event.get() hands to the loop
Events ==
    {Event("MOUSEBUTTONDOWN", 1, x, y, "") : x \in 0 .. MaxX, y \in 0 .. MaxY}
    \cup {Event("MOUSEMOTION", 1, 0, 0, ""), Event("MOUSEMOTION", 1, MaxX, MaxY, "")}
    \cup {Event("MOUSEBUTTONUP", 1, 0, 0, ""), Event("MOUSEBUTTONDOWN", 3, 1, 0, "")}
    \cup {Event("KEYDOWN", 0, 0, 0, k) : k \in {"K_ESCAPE", "K_a"}}

\* Engine.run: `self.handle_event(event)` for one event of the queue
Dispatch(ev) ==
    /\ pc = "idle"
    /\ LET S0 == [State EXCEPT !.hist = [NoHist EXCEPT !.posts = hist.posts,
                                                       !.nextId = hist.nextId,
                                                       !.accepted = hist.accepted,
                                                       !.ev = ev]]
           S == handle_event(S0, Engine, ev)
       IN Commit([S EXCEPT !.hist.op = IF S.raised THEN "dispatch-raised" ELSE "dispatch",
                           !.hist.consumed = S.consumed])
    /\ PumpVarsUnchanged

NextEvent == \E ev \in Events : Dispatch(ev)

SpecEvent == InitEvent /\ [][NextEvent]_vars

\* ---------------------------------------------------------------- geometry
\* The built tree with the rectangles of the event loop, before any widget
\* is registered; the application re-attaches components below the engine,
\* detaches them and moves the window and the first widget.
InitGeom ==
    /\ InitCommon
    /\ parent = BuiltParent
    /\ children = BuiltChildren
    /\ address = [c \in Comps |-> IF c <= 1 THEN c ELSE NoAddr]
    /\ components = <<[addr |-> 0, comp |-> Engine], [addr |-> 1, comp |-> 1]>>
    /\ next_addr = 2
    /\ ui = [NewUi EXCEPT !.rect = [c \in Comps |-> EventRect(c)]]
    /\ hist = NoHist

\* component.position = (x, y) set by the application
SetPosition(c, x, y) ==
    /\ pc = "idle"
    /\ Commit(Called(set_position(State, c, x, y), "position", c))
    /\ PumpVarsUnchanged

NextGeom ==
    \/ \E p \in Comps \ {Engine}, c \in Comps : Add(p, c)
    \/ \E p \in Comps, c \in Comps : Remove(p, c)
    \/ \E c \in {1, 2}, x \in {0, MaxX}, y \in {0, MaxY} : SetPosition(c, x, y)

SpecGeom == InitGeom /\ [][NextGeom]_vars

\* ------------------------------------------------------------------- root
\* component.root() called by the application (the handlers and
\* Window.destroy call it the same way)
CallRoot(c) ==
    /\ pc = "idle"
    /\ Commit(Called(root(State, c), "root", c))
    /\ PumpVarsUnchanged

NextRoot ==
    \/ \E p \in Comps \ {Engine}, c \in Comps : Add(p, c)
    \/ \E p \in Comps, c \in Comps : Remove(p, c)
    \/ \E c \in Comps : CallRoot(c)

SpecRoot == InitBuilt /\ [][NextRoot]_vars

\* ----------------------------------------------------------------- detach
\* The running application re-attaches components and takes them off their
\* parents, the engine included, whether they are attached there or not.
NextDetach ==
    \/ \E p \in Comps, c \in Comps : Add(p, c)
    \/ \E p \in Comps, c \in Comps : Remove(p, c)

SpecDetach == InitRunning /\ [][NextDetach]_vars

\* ---------------------------------------------------------------- z-order
\* component.bring_to_front() called by the application
BringToFront(c) ==
    /\ pc = "idle"
    /\ Commit(Called(bring_to_front(State, c), "bring_to_front", c))
    /\ PumpVarsUnchanged

\* component.send_to_back() called by the application
SendToBack(c) ==
    /\ pc = "idle"
    /\ Commit(Called(send_to_back(State, c), "send_to_back", c))
    /\ PumpVarsUnchanged

\* The application re-attaches the components of the built tree and changes
\* the order of the children.
NextOrder ==
    \/ \E p \in Comps, c \in Comps : Add(p, c)
    \/ \E c \in Comps : BringToFront(c)
    \/ \E c \in Comps : SendToBack(c)

SpecOrder == InitBuilt /\ [][NextOrder]_vars

\* ------------------------------------------------------------ dirty flags
\* component.reset() called by the application
Reset(c) ==
    /\ pc = "idle"
    /\ Commit(Called(reset(State, c), "reset", c))
    /\ PumpVarsUnchanged

\* component.size = (w, h) set by the application
SetSize(c, w, h) ==
    /\ pc = "idle"
    /\ Commit(Called(set_size(State, c, w, h), "size", c))
    /\ PumpVarsUnchanged

\* The application changes the built tree, the order of the children and
\* the geometry of the first widget, and calls reset.
NextDirty ==
    \/ \E p \in Comps \ {Engine}, c \in Comps : Add(p, c)
    \/ \E p \in Comps, c \in Comps : Remove(p, c)
    \/ \E c \in Comps : BringToFront(c)
    \/ \E c \in Comps : SendToBack(c)
    \/ \E c \in Comps : Reset(c)
    \/ \E x \in {0, MaxX} : SetPosition(2, x, 0)
    \/ \E w \in {0, 2} : SetSize(2, w, 1)

SpecDirty == InitGeom /\ [][NextDirty]_vars

\* ------------------------------------------------------------ the desktop
\* Two windows side by side as children of the engine (component 3 is a
\* Window here), the first widget in the first window, every further
\* component in the second.
DragParent ==
    [c \in Comps |-> IF c = Engine THEN Nil
                     ELSE IF c \in {1, 3} THEN Engine
                     ELSE IF c = 2 THEN 1 ELSE 3]
DragChildren ==
    [c \in Comps |-> IF c = Engine THEN <<1, 3>>
                     ELSE IF c = 1 THEN <<2>>
                     ELSE IF c = 3 THEN [i \in 1 .. (NumComps - 4) |-> i + 3]
                     ELSE <<>>]
DragRect(c) ==
    IF c = Engine THEN [x |-> 0, y |-> 0, w |-> MaxX + 1, h |-> MaxY + 1]
    ELSE IF c = 1 THEN [x |-> 0, y |-> 0, w |-> 2, h |-> 2]
    ELSE IF c = 2 THEN [x |-> 1, y |-> 0, w |-> 1, h |-> 1]
    ELSE IF c = 3 THEN [x |-> 2, y |-> 0, w |-> 2, h |-> 2]
    ELSE [x |-> 0, y |-> 1, w |-> 1, h |-> 1]

\* The state when Engine.run starts on the desktop: both windows movable,
\* the second one shown or hidden.
InitDrag ==
    /\ InitCommon
    /\ address = [c \in Comps |-> c]
    /\ components = [i \in 1 .. NumComps |-> [addr |-> i - 1, comp |-> i - 1]]
    /\ next_addr = NumComps
    /\ parent = DragParent
    /\ children = DragChildren
    /\ \E shown \in BOOLEAN :
         ui = [NewUi EXCEPT !.cls[3] = "Window",
                            !.rect = [c \in Comps |-> DragRect(c)],
                            !.visible[3] = shown]
    /\ hist = NoHist

\* the events of a pointer that presses, moves and releases
DragEvents ==
    {Event("MOUSEBUTTONDOWN", 1, pt[1], pt[2], "") :
        pt \in {<<0, 0>>, <<1, 0>>, <<0, 1>>, <<2, 0>>, <<MaxX, MaxY>>}}
    \cup {Event("MOUSEMOTION", 1, 1, 1, ""), Event("MOUSEMOTION", 1, MaxX, MaxY, "")}
    \cup {Event("MOUSEBUTTONUP", 1, 0, 0, "")}

NextDrag == \E ev \in DragEvents : Dispatch(ev)

SpecDrag == InitDrag /\ [][NextDrag]_vars

\* ------------------------------------------------------------ snap toggle
\* window.toggle_snap, the handler builders.Gui.add_header gives to the
\* snap button: class Window defines no toggle_snap and no snap flag, the
\* attribute access raises AttributeError
toggle_snap(S, c) == [S EXCEPT !.raised = TRUE]

\* the application switches the snapping of a window
ToggleSnap(c) ==
    /\ pc = "idle"
    /\ Kind(c) = "Window"
    /\ LET S == toggle_snap(State, c)
       IN Commit(Called(S, IF S.raised THEN "toggle_snap-raised" ELSE "toggle_snap", c))
    /\ PumpVarsUnchanged

NextSnap ==
    \/ \E ev \in DragEvents : Dispatch(ev)
    \/ ToggleSnap(1)

SpecSnap == InitDrag /\ [][NextSnap]_vars

\* ------------------------------------------------------------ lock toggle
\* Window.toggle_lock that advertises the state the window had before
toggle_lockStale(S, c) ==
    LET S0 == [S EXCEPT !.ui.can_move[c] = ~S.ui.can_move[c]]
        S1 == root(S0, c)
        hoster == rootValue(S0, c)
    IN hosterPost(S1, hoster,
                  Packet(BROADCAST, S1.address[c], "M_LOCK",
                         IF ~S.ui.can_move[c] THEN "locked" ELSE "unlocked"))

\* Window.toggle_lock; the payload `not self.can_move` is the locked state
\* after the flip
toggle_lock(S, c) ==
    LET S0 == [S EXCEPT !.ui.can_move[c] = ~S.ui.can_move[c]]
        S1 == root(S0, c)
        hoster == rootValue(S0, c)
    IN hosterPost(S1, hoster,
                  Packet(BROADCAST, S1.address[c], "M_LOCK",
                         IF ~S0.ui.can_move[c] THEN "locked" ELSE "unlocked"))

\* window.toggle_lock() called by the lock button of a window
ToggleLock(c) ==
    /\ pc = "idle"
    /\ Kind(c) = "Window"
    /\ hist.posts < MaxPosts
    /\ LET S == toggle_lock(State, c)
       IN Commit([Called(S, IF S.raised THEN "toggle_lock-raised" ELSE "toggle_lock", c)
                  EXCEPT !.hist.posts = hist.posts + 1])
    /\ PumpVarsUnchanged

\* The desktop with the lock buttons of its windows and the bus pump.
NextLock ==
    \/ \E c \in Comps : ToggleLock(c)
    \/ PumpBegin
    \/ Take
    \/ Deliver
    \/ PumpReturn

SpecLock == InitDrag /\ [][NextLock]_vars

\* ------------------------------------------------------- lock during drag
\* The desktop with the pointer and the lock buttons of its windows: the
\* lock of a window can be toggled between any two input events.
LockDragEvents ==
    {Event("MOUSEBUTTONDOWN", 1, 0, 0, ""), Event("MOUSEBUTTONDOWN", 1, 2, 0, ""),
     Event("MOUSEMOTION", 1, 1, 1, ""), Event("MOUSEMOTION", 1, MaxX, MaxY, ""),
     Event("MOUSEBUTTONUP", 1, 0, 0, "")}

NextLockDrag ==
    \/ \E ev \in LockDragEvents : Dispatch(ev)
    \/ \E c \in Comps : ToggleLock(c)

SpecLockDrag == InitDrag /\ [][NextLockDrag]_vars

\* ------------------------------------------------------- three windows
\* Three overlapping windows as children of the engine (components 2 and 3
\* are Windows here), every further component in the third.
TrioParent ==
    [c \in Comps |-> IF c = Engine THEN Nil ELSE IF c <= 3 THEN Engine ELSE 3]
TrioChildren ==
    [c \in Comps |-> IF c = Engine THEN <<1, 2, 3>>
                     ELSE IF c = 3 THEN [i \in 1 .. (NumComps - 4) |-> i + 3]
                     ELSE <<>>]
TrioRect(c) ==
    IF c = Engine THEN [x |-> 0, y |-> 0, w |-> MaxX + 1, h |-> MaxY + 1]
    ELSE IF c <= 3 THEN [x |-> c - 1, y |-> 0, w |-> 2, h |-> 2]
    ELSE [x |-> 0, y |-> 1, w |-> 1, h |-> 1]

\* The state when Engine.run starts on the three windows: all movable, the
\* second one shown or hidden.
InitTrio ==
    /\ InitCommon
    /\ address = [c \in Comps |-> c]
    /\ components = [i \in 1 .. NumComps |-> [addr |-> i - 1, comp |-> i - 1]]
    /\ next_addr = NumComps
    /\ parent = TrioParent
    /\ children = TrioChildren
    /\ \E shown \in BOOLEAN :
         ui = [NewUi EXCEPT !.cls[2] = "Window", !.cls[3] = "Window",
                            !.rect = [c \in Comps |-> TrioRect(c)],
                            !.visible[2] = shown]
    /\ hist = NoHist

NextTrio == \E ev \in LockDragEvents : Dispatch(ev)

SpecTrio == InitTrio /\ [][NextTrio]_vars

\* ------------------------------------------------------------ frame loop
\* the frame times clock.tick can return when time has passed
FrameTimes == 1 .. MaxDt

\* the frames an envelope has waited in the queue
Waited(h, id) == IF id \in DOMAIN h.waited THEN h.waited[id] ELSE 0

\* every envelope of the list has seen one more frame begin
Aged(h, list) == [id \in {list[i].id : i \in 1 .. Len(list)} |-> Waited(h, id) + 1]

\* Engine.run: one iteration of the loop with `self.clock.tick(...)` = dt,
\* up to the return of pump when the queue is empty and into pump's loop
\* when it is not
Frame(dt) ==
    /\ pc = "idle"
    /\ running
    /\ LET acc == bus_accumulator + dt
           S0 == [Called(State, "frame", dt) EXCEPT
                    !.bus_accumulator = acc,
                    !.hist.since = hist.since + dt,
                    !.hist.waited = Aged(hist, messages)]
       IN IF acc < bus_freq
          THEN Commit(S0) /\ PumpVarsUnchanged
          ELSE IF messages = <<>>
          THEN /\ Commit([S0 EXCEPT !.bus_accumulator = 0,
                                    !.hist.op = "pump", !.hist.since = 0])
               /\ PumpVarsUnchanged
          ELSE /\ Commit([S0 EXCEPT
                       !.messages = <<>>,
                       !.hist.op = "pump", !.hist.since = 0,
                       !.hist.snap = messages,
                       !.hist.regStart = RegisteredSet(components),
                       !.hist.owed = hist.accepted,
                       !.hist.accepted = {}])
               /\ pc' = "loop"
               /\ queue' = messages
               /\ UNCHANGED <<cur, targets>>

\* Engine.run after pump that leaves the accumulator as it is
FrameResumeKeep ==
    /\ pc \in {"done", "raised"}
    /\ pc' = IF pc = "done" THEN "idle" ELSE "exited"
    /\ queue' = <<>>
    /\ cur' = NoPacket
    /\ targets' = <<>>
    /\ Commit([State EXCEPT
            !.hist = [NoHist EXCEPT !.op = IF pc = "done" THEN "return" ELSE "exit",
                                    !.posts = hist.posts,
                                    !.nextId = hist.nextId,
                                    !.accepted = hist.accepted,
                                    !.since = hist.since,
                                    !.waited = hist.waited]])

\* Engine.run after pump: `self.bus_accumulator = 0.0` when pump returned;
\* an exception of a handler leaves pump and run, and the loop is over
FrameResume ==
    /\ pc \in {"done", "raised"}
    /\ pc' = IF pc = "done" THEN "idle" ELSE "exited"
    /\ queue' = <<>>
    /\ cur' = NoPacket
    /\ targets' = <<>>
    /\ Commit([State EXCEPT
            !.bus_accumulator = IF pc = "done" THEN 0 ELSE bus_accumulator,
            !.hist = [NoHist EXCEPT !.op = IF pc = "done" THEN "return" ELSE "exit",
                                    !.posts = hist.posts,
                                    !.nextId = hist.nextId,
                                    !.accepted = hist.accepted,
                                    !.since = hist.since,
                                    !.waited = hist.waited]])

\* The frame loop: handlers of input events and update post envelopes
\* between two pumps.
NextFrame ==
    \/ \E m \in PingPackets : Post(m)
    \/ \E dt \in FrameTimes : Frame(dt)
    \/ Take
    \/ Deliver
    \/ FrameResume

SpecFrame == InitRunning /\ [][NextFrame]_vars

\* ------------------------------------------------------------ quiescence
\* the envelopes a queue can hold: requests and replies, from a component
\* and from an address outside of the registry
QueuePackets ==
    {Packet(BROADCAST, Foreign, "M_PING", "none"), Packet(3, 2, "M_PING", "none"),
     Packet(2, 3, "M_REDRAW", "none"), Packet(1, Foreign, "M_SHUTDOWN", "none"),
     Packet(3, 2, "M_PONG", "meta"), Packet(MASTER, 1, "M_BYE", "self")}

\* bus.post(msg) before the first pump: the content the queue starts with
Preload(m) ==
    /\ hist.op \in {"init", "post"}
    /\ Post(m)

\* The bus left to itself: after the queue was filled only pump is called.
NextQuiesce ==
    \/ \E m \in QueuePackets : Preload(m)
    \/ PumpBegin
    \/ Take
    \/ Deliver
    \/ PumpReturn

\* the caller keeps calling pump, and a call of pump runs to its end
SpecQuiesce ==
    /\ InitRunning
    /\ [][NextQuiesce]_vars
    /\ WF_vars(PumpBegin \/ Take \/ Deliver \/ PumpReturn)

\* ------------------------------------------------------- nested window
\* A window inside a window (component 2 is a Window here): the outer one a
\* child of the engine at x = 1, the inner one at the outer one's origin,
\* every further component in the inner one.
NestParent ==
    [c \in Comps |-> IF c = Engine THEN Nil
                     ELSE IF c = 1 THEN Engine
                     ELSE IF c = 2 THEN 1 ELSE 2]
NestChildren ==
    [c \in Comps |-> IF c = Engine THEN <<1>>
                     ELSE IF c = 1 THEN <<2>>
                     ELSE IF c = 2 THEN [i \in 1 .. (NumComps - 3) |-> i + 2]
                     ELSE <<>>]
NestRect(c) ==
    IF c = Engine THEN [x |-> 0, y |-> 0, w |-> MaxX + 1, h |-> MaxY + 1]
    ELSE IF c = 1 THEN [x |-> 1, y |-> 0, w |-> 3, h |-> 2]
    ELSE IF c = 2 THEN [x |-> 0, y |-> 0, w |-> 2, h |-> 2]
    ELSE [x |-> 0, y |-> 1, w |-> 1, h |-> 1]

\* The state when Engine.run starts on the nested windows: both movable,
\* the widgets of the inner one shown or hidden.
InitNest ==
    /\ InitCommon
    /\ address = [c \in Comps |-> c]
    /\ components = [i \in 1 .. NumComps |-> [addr |-> i - 1, comp |-> i - 1]]
    /\ next_addr = NumComps
    /\ parent = NestParent
    /\ children = NestChildren
    /\ \E shown \in BOOLEAN :
         ui = [NewUi EXCEPT !.cls[2] = "Window",
                            !.rect = [c \in Comps |-> NestRect(c)],
                            !.visible = [c \in Comps |-> c <= 2 \/ shown]]
    /\ hist = NoHist

NextNest == \E ev \in DragEvents : Dispatch(ev)

SpecNest == InitNest /\ [][NextNest]_vars

\* ------------------------------------------------------------------ claims

\* C1: in every state reachable by add and remove calls every component is
\* in at most one child list, at most once, and it is in the child list of
\* p exactly when its parent reference is p.
TreeWellFormed ==
    /\ \A c \in Comps :
         Cardinality({p \in Comps : c \in Range(children[p])}) <= 1
    /\ \A p \in Comps, c \in Comps : Count(children[p], c) <= 1
    /\ \A p \in Comps, c \in Comps :
         (c \in Range(children[p])) <=> (parent[c] = p)

\* C1 witness: a component that was a child of the engine (it holds an
\* address and lost its registry entry with the detach) has been re-attached
\* to another parent.
WitnessReattached ==
    /\ hist.op = "add"
    /\ \E p \in Comps \ {Engine}, c \in Comps :
         /\ parent[c] = p
         /\ children[p][Len(children[p])] = c
         /\ address[c] >= 0
         /\ DictIndex(components, address[c]) = 0

\* C2: after destroy(node) returns, node has no children and no parent, is
\* terminated, and neither its address nor the address of any former
\* descendant is in the registry.
DestroyPostcondition ==
    hist.op = "destroy" =>
        /\ children[hist.arg] = <<>>
        /\ parent[hist.arg] = Nil
        /\ terminated[hist.arg]
        /\ \A d \in {hist.arg} \cup hist.was.desc :
             address[d] >= 0 => address[d] \notin DictKeys(components)

\* C3: after destroy(node) called directly on a node that had parent p,
\* node is no longer in p's child list.
DestroyDetaches ==
    (hist.op = "destroy" /\ hist.was.parent # Nil) =>
        hist.arg \notin Range(children[hist.was.parent])

\* C4: with N components registered, one SHUTDOWN broadcast from a foreign
\* sender in the queue and one completed pump, every one of them is
\* terminated and none of their addresses is left in the registry.
ShutdownScenario ==
    (/\ pc = "done"
     /\ Len(hist.snap) = 1
     /\ hist.snap[1].receiver = BROADCAST
     /\ hist.snap[1].sender = Foreign
     /\ hist.snap[1].rs = "M_SHUTDOWN") =>
        \A c \in hist.regStart :
            /\ terminated[c]
            /\ address[c] \notin DictKeys(components)

\* C5: post on a full queue returns false and leaves the queue as it is,
\* post on a queue with room appends the envelope at the tail and returns
\* true, and the queue never holds more than its capacity, whoever posts.
PostStep ==
    hist'.op = "post" =>
        IF Len(messages) >= QueueCap
        THEN hist'.ret = FALSE /\ messages' = messages
        ELSE /\ hist'.ret = TRUE
             /\ Len(messages') = Len(messages) + 1
             /\ SubSeq(messages', 1, Len(messages)) = messages
             /\ messages'[Len(messages')].id = hist.nextId

BoundedQueue == [](Len(messages) <= QueueCap) /\ [][PostStep]_vars

\* C5 witness: a post was refused on a full queue.
WitnessPostRefused ==
    hist.op = "post" /\ hist.ret = FALSE /\ Len(messages) = QueueCap

\* the envelope of the running pump that carries the number id
SnapMsg(id) == CHOOSE m \in Range(hist.snap) : m.id = id
LogIds == {hist.log[i].id : i \in 1 .. Len(hist.log)}

\* C6: an envelope that post accepted while a pump is running is neither
\* taken nor handed to a handler by that pump; a pump that returns has taken
\* every envelope accepted since the pump before it began, and has handed it
\* to a handler unless no component was registered for its receiver.
DeferredDelivery ==
    /\ \A id \in hist.accepted : pc # "idle" => id \notin Range(hist.turns) \cup LogIds
    /\ pc = "done" =>
         \A id \in hist.owed :
            /\ id \in Range(hist.turns)
            /\ id \in LogIds \/ id \in hist.missed
            /\ id \in hist.missed =>
                 /\ SnapMsg(id).receiver # BROADCAST
                 /\ SnapMsg(id).receiver \notin DictKeys(components)

\* C6 witness: a pump has returned after handing over a PONG reply that a
\* handler posted during the pump before.
WitnessReplyDelivered ==
    /\ pc = "done"
    /\ \E id \in hist.owed \cap LogIds :
         SnapMsg(id).rs = "M_PONG" /\ SnapMsg(id).data = "meta"

\* the components whose handler was called with the envelope numbered id
Invoked(id) == {hist.log[i].comp : i \in {j \in 1 .. Len(hist.log) : hist.log[j].id = id}}

\* a broadcast envelope has been handed to all of its targets
BroadcastServed ==
    pc \in {"loop", "done"} /\ hist.turns # <<>> /\ cur.receiver = BROADCAST

OwnEnvelopeStep ==
    (pc = "deliver" /\ cur.sender = address[Head(targets)]) =>
        /\ is_active' = is_active
        /\ samples' = samples
        /\ redraw' = redraw
        /\ parent' = parent
        /\ children' = children
        /\ messages' = messages

LoopPrevention == [][OwnEnvelopeStep]_vars

\* C9: a pump takes the envelopes that were queued when it began in the
\* order of their posting, each once, hands them to the handlers in that
\* order, has taken all of them when it returns, and none of them is in the
\* queue from the moment the pump began.
FifoDelivery ==
    /\ Len(hist.turns) <= Len(hist.snap)
    /\ \A i \in 1 .. Len(hist.turns) : hist.turns[i] = hist.snap[i].id
    /\ \A i, j \in 1 .. Len(hist.turns) : i < j => hist.turns[i] < hist.turns[j]
    /\ \A i, j \in 1 .. Len(hist.log) : i < j => hist.log[i].id <= hist.log[j].id
    /\ LogIds \subseteq Range(hist.turns)
    /\ pc = "done" => Len(hist.turns) = Len(hist.snap)
    /\ \A i \in 1 .. Len(messages), j \in 1 .. Len(hist.snap) :
         messages[i].id # hist.snap[j].id

\* C9 witness: a pump over two envelopes has returned after handing both
\* to handlers.
WitnessTwoDelivered ==
    /\ pc = "done"
    /\ Len(hist.snap) = 2
    /\ \A j \in 1 .. 2 : hist.snap[j].id \in LogIds

\* C10: a component that holds an address keeps it through every call, a
\* component that is given an address gets one above every address handed
\* out before, and no two components hold the same address.
AddressStep ==
    \A c \in Comps :
        /\ address[c] >= 0 => address'[c] = address[c]
        /\ (address[c] < 0 /\ address'[c] >= 0) =>
             /\ address'[c] >= next_addr
             /\ \A d \in Comps : address'[c] > address[d]

AddressIdentity ==
    /\ [](\A c \in Comps, d \in Comps :
            (c # d /\ address[c] >= 0) => address[c] # address[d])
    /\ [](\A c \in Comps : address[c] < next_addr)
    /\ [](\A i \in 1 .. Len(components) :
            address[components[i].comp] = components[i].addr)
    /\ [][AddressStep]_vars

\* C10 witness: register has put back a component that had been
\* unregistered (its entry is the youngest of the dict) under the address it
\* held before (a smaller one than a neighbour's).
WitnessReRegistered ==
    /\ hist.op = "register"
    /\ components # <<>>
    /\ components[Len(components)].comp = hist.arg
    /\ \E i \in 1 .. (Len(components) - 1) :
         components[i].addr > address[hist.arg]

\* C11: when pump takes a unicast envelope whose receiver address is not in
\* the registry, no handler is called, no exception leaves pump, no state of
\* a component, of the registry or of the queue changes, and the envelope is
\* gone: it is never handed over later and never back in the queue.
MissingTargetStep ==
    (/\ pc = "loop"
     /\ Head(queue).receiver # BROADCAST
     /\ Head(queue).receiver \notin DictKeys(components)) =>
        /\ targets' = <<>>
        /\ pc' \in {"loop", "done"}
        /\ queue' = Tail(queue)
        /\ hist'.log = hist.log
        /\ messages' = messages
        /\ UNCHANGED <<parent, children, redraw, rootCache, terminated, address,
                       components, next_addr, running, is_active, samples>>

MissingTarget ==
    /\ [][MissingTargetStep]_vars
    /\ [](\A id \in hist.missed :
            /\ id \notin LogIds
            /\ \A i \in 1 .. Len(messages) : messages[i].id # id)

\* C11 witness: a pump went past an envelope for the address of a component
\* that was registered when the pump began and that a handler had
\* unregistered before the loop reached the envelope.
WitnessStaleAddress ==
    /\ pc \in {"loop", "done"}
    /\ \E i \in 1 .. Len(hist.snap) :
         /\ hist.snap[i].id \in hist.missed
         /\ \E c \in hist.regStart : address[c] = hist.snap[i].receiver

\* C12: when a PING envelope is handed to a registered component whose
\* address is not the sender's, the handler returns, it has appended exactly
\* one PONG envelope for the sender of the PING, sent from the component's
\* address, when the queue had room (nothing when it was full), and the
\* component's parent, child list and active flag are as before.
DiscoveryStep ==
    (/\ pc = "deliver"
     /\ cur.rs = "M_PING"
     /\ cur.sender # address[Head(targets)]) =>
        /\ pc' # "raised"
        /\ IF Len(messages) < QueueCap
           THEN /\ Len(messages') = Len(messages) + 1
                /\ SubSeq(messages', 1, Len(messages)) = messages
                /\ messages'[Len(messages')].receiver = cur.sender
                /\ messages'[Len(messages')].sender = address[Head(targets)]
                /\ messages'[Len(messages')].rs = "M_PONG"
           ELSE messages' = messages
        /\ parent' = parent
        /\ children' = children
        /\ ui'.active = ui.active

Discovery == [][DiscoveryStep]_vars

\* ---- observations on one dispatch
\* the step dispatched a press of the primary button
PressStep ==
    hist'.op = "dispatch" /\ hist'.ev.type = "MOUSEBUTTONDOWN" /\ hist'.ev.button = 1

Participates(c) == ui.visible[c] /\ ui.enabled[c] /\ ~ui.passthrough[c]

\* the children of p that take part in the dispatch and hold the point
HitSiblings(p, pt) ==
    {c \in Range(children[p]) : Participates(c) /\ is_inside(State, c, pt)}

Pos(list, c) == CHOOSE i \in 1 .. Len(list) : list[i] = c

\* the one of the set that is last in the child list of p
Topmost(p, set) ==
    CHOOSE c \in set : \A d \in set : Pos(children[p], d) <= Pos(children[p], c)

\* the trigger calls of the record h made on c
FiredOn(h, c) == {i \in 1 .. Len(h.fired) : h.fired[i].comp = c}

\* C13 (as claimed): a primary press at a point inside several visible,
\* enabled, non-passthrough children of p, dispatched from p: p reports
\* consumed, and on every one of these children but the topmost no handler
\* fires, no state changes and process_event does not run.
TopmostOnlyStep ==
    \A p \in Comps :
        (/\ PressStep
         /\ p \in Range(hist'.offered)
         /\ ui.visible[p] /\ ui.enabled[p]
         /\ Cardinality(HitSiblings(p, hist'.ev.pos)) >= 2) =>
            /\ p \in hist'.took
            /\ \A s \in HitSiblings(p, hist'.ev.pos) \
                        {Topmost(p, HitSiblings(p, hist'.ev.pos))} :
                 /\ s \notin Range(hist'.processed)
                 /\ FiredOn(hist', s) = {}
                 /\ ui'.active[s] = ui.active[s]

TopmostFirstStep ==
    \A p \in Comps :
        (/\ PressStep
         /\ p \in Range(hist'.offered)
         /\ ui.visible[p] /\ ui.enabled[p]
         /\ Cardinality(HitSiblings(p, hist'.ev.pos)) >= 2) =>
            /\ p \in hist'.took
            /\ \A s \in HitSiblings(p, hist'.ev.pos) \
                        {Topmost(p, HitSiblings(p, hist'.ev.pos))} :
                 /\ s \notin Range(hist'.offered)
                 /\ s \notin Range(hist'.processed)
                 /\ (FiredOn(hist', s) = {}) <=> (ui'.active[s] = ui.active[s])
                 /\ FiredOn(hist', s) # {} =>
                      /\ Cardinality(FiredOn(hist', s)) = 1
                      /\ \A i \in FiredOn(hist', s) : hist'.fired[i].kind = "blur"
                      /\ ui.active[s] /\ ~ui'.active[s]

ActiveChildren(p) == {c \in Range(children[p]) : ui.active[c]}

\* C14: in every state reached by dispatching input events at the root,
\* from a tree without an active node, every parent has at most one active
\* direct child.
SiblingExclusiveFocus == \A p \in Comps : Cardinality(ActiveChildren(p)) <= 1

\* C14 witness: the focus went from one child to another child of the same
\* parent (blur fired on the first without its process_event being run)
\* while a node under another parent is active too.
WitnessFocusPerParent ==
    /\ hist.op = "dispatch"
    /\ \E p \in Comps, a \in Comps, b \in Comps :
         /\ a # b /\ {a, b} \subseteq Range(children[p])
         /\ ui.active[b] /\ ~ui.active[a]
         /\ a \notin Range(hist.processed)
         /\ \E i \in FiredOn(hist, a) : hist.fired[i].kind = "blur"
         /\ \E d \in Comps : ui.active[d] /\ parent[d] # p

\* C15: when child A of a parent is active and a primary press activates
\* another child B of the same parent, blur fires on A exactly once and A is
\* inactive afterwards, focus fires on B and B is active, whether A is above
\* or below B in the child list.
HandOverStep ==
    \A a \in Comps, b \in Comps :
        (/\ PressStep
         /\ a # b /\ parent[a] # Nil /\ parent[a] = parent[b]
         /\ ui.active[a]
         /\ ~ui.active[b] /\ ui'.active[b]) =>
            /\ Cardinality({i \in FiredOn(hist', a) : hist'.fired[i].kind = "blur"}) = 1
            /\ ~ui'.active[a]
            /\ \E i \in FiredOn(hist', b) : hist'.fired[i].kind = "focus"

FocusHandOver == [][HandOverStep]_vars

\* C15 witness: the focus went to a child that lies below the child that
\* had it: the upper one saw the press outside its rectangle and fired blur,
\* the lower one consumed the press and fired focus.
WitnessHandOverDownwards ==
    /\ hist.op = "dispatch"
    /\ hist.ev.type = "MOUSEBUTTONDOWN" /\ hist.ev.button = 1
    /\ \E p \in Comps, a \in Comps, b \in Comps :
         /\ {a, b} \subseteq Range(children[p])
         /\ Pos(children[p], b) < Pos(children[p], a)
         /\ a \in Range(hist.processed)
         /\ \E i \in FiredOn(hist, a) : hist.fired[i].kind = "blur"
         /\ ui.active[b]
         /\ \E i \in FiredOn(hist, b) : hist.fired[i].kind = "focus"

\* C16: a primary press that activates a node B that is neither A itself,
\* nor a sibling, an ancestor or a descendant of the active node A, fires no
\* blur on A and leaves A active.
ScopingStep ==
    \A a \in Comps, b \in Comps :
        (/\ PressStep
         /\ a # b /\ parent[a] # parent[b]
         /\ a \notin Ancestors(parent, b) /\ b \notin Ancestors(parent, a)
         /\ ui.active[a]
         /\ ~ui.active[b] /\ ui'.active[b]) =>
            /\ FiredOn(hist', a) = {}
            /\ ui'.active[a]

FocusScoping == [][ScopingStep]_vars

\* C17: when an input event is dispatched into a node that is invisible or
\* disabled, the node reports not-consumed, and on the node and on every
\* node below it no handler fires, no active flag changes and neither
\* handle_event (below it) nor process_event runs.
NonParticipationStep ==
    \A n \in Comps :
        (/\ hist'.op = "dispatch"
         /\ n \in Range(hist'.offered)
         /\ ~ui.visible[n] \/ ~ui.enabled[n]) =>
            /\ n \notin hist'.took
            /\ running' = running
            /\ \A d \in {n} \cup Descendants(children, n) :
                 /\ FiredOn(hist', d) = {}
                 /\ ui'.active[d] = ui.active[d]
                 /\ d \notin Range(hist'.processed)
                 /\ d # n => d \notin Range(hist'.offered)

NonParticipation == [][NonParticipationStep]_vars

\* the children of n in the order in which handle_event offers the event
OfferOrder(n) == Reverse(children[n])

\* C18: when an event is dispatched into a visible, enabled node whose
\* passthrough flag is set, the node fires none of its handlers and keeps
\* its active flag, it reports consumed only if one of its children
\* consumed, and its children are offered the event from the topmost one
\* down to the first that consumes it.
PassthroughStep ==
    \A n \in Comps :
        (/\ hist'.op = "dispatch"
         /\ n \in Range(hist'.offered)
         /\ ui.visible[n] /\ ui.enabled[n] /\ ui.passthrough[n]) =>
            /\ FiredOn(hist', n) = {}
            /\ ui'.active[n] = ui.active[n]
            /\ ui'.dragging[n] = ui.dragging[n]
            /\ n \in hist'.took => \E c \in Range(children[n]) : c \in hist'.took
            /\ \A i \in 1 .. Len(children[n]) :
                 (OfferOrder(n)[i] \in Range(hist'.offered)) <=>
                     (\A j \in 1 .. (i - 1) : OfferOrder(n)[j] \notin hist'.took)

Passthrough == [][PassthroughStep]_vars

RECURSIVE SumOver(_, _)
\* the sum of f over the set
SumOver(f, set) ==
    IF set = {} THEN 0
    ELSE LET a == CHOOSE a \in set : TRUE IN f[a] + SumOver(f, set \ {a})

\* C19: in every state reached by add, remove and position changes, the
\* absolute rectangle of every node has the node's own width and height and
\* as origin the node's local origin plus the sum of the local origins of
\* all its ancestors.
AbsolutePosition ==
    \A c \in Comps :
        get_absolute_rect(State, c) =
            [x |-> ui.rect[c].x
                   + SumOver([a \in Comps |-> ui.rect[a].x], Ancestors(parent, c)),
             y |-> ui.rect[c].y
                   + SumOver([a \in Comps |-> ui.rect[a].y], Ancestors(parent, c)),
             w |-> ui.rect[c].w,
             h |-> ui.rect[c].h]

\* C19 witness: after a position change a node has two ancestors or more
\* and a grandparent that is not at the origin.
WitnessDeepNode ==
    /\ hist.op = "position"
    /\ \E c \in Comps :
         /\ Cardinality(Ancestors(parent, c)) >= 2
         /\ hist.arg \in Ancestors(parent, c)
         /\ \E a \in Ancestors(parent, c) \ {parent[c]} : ui.rect[a].x > 0

RECURSIVE TopAncestor(_, _)
\* the node reached from c by following the parent references to the end
TopAncestor(par, c) == IF par[c] = Nil THEN c ELSE TopAncestor(par, par[c])

\* C20: after any sequence of add, remove and root calls, root() of every
\* node returns the node reached by following the parent references from it
\* to a node without parent.
RootResolution ==
    \A n \in Comps : rootValue(State, n) = TopAncestor(parent, n)

\* C21: remove(parent, child) with a child that is not in parent's child
\* list leaves every child list, every parent reference, every dirty flag
\* and the registry of the bus as they are, also when parent is the engine.
RemoveAbsentStep ==
    \A p \in Comps, c \in Comps :
        (c \notin Range(children[p]) /\ Remove(p, c)) =>
            UNCHANGED <<children, parent, redraw, components>>

RemoveAbsent == [][RemoveAbsentStep]_vars

\* the members of the list other than c, in the order of the list
Others(list, c) == SelectSeq(list, LAMBDA d : d # c)

\* C22: bring_to_front(node) makes node the last entry and
\* send_to_back(node) the first entry of its parent's child list, with the
\* same children, the other siblings in the order they had, every other
\* child list and every parent reference unchanged; on a node without
\* parent both change nothing.
ZOrderStep ==
    hist'.op \in {"bring_to_front", "send_to_back"} =>
        LET c == hist'.arg
            p == parent[c]
        IN /\ parent' = parent
           /\ IF p = Nil THEN children' = children
              ELSE /\ \A q \in Comps \ {p} : children'[q] = children[q]
                   /\ Len(children'[p]) = Len(children[p])
                   /\ Range(children'[p]) = Range(children[p])
                   /\ Others(children'[p], c) = Others(children[p], c)
                   /\ hist'.op = "bring_to_front" =>
                        children'[p][Len(children'[p])] = c
                   /\ hist'.op = "send_to_back" => children'[p][1] = c

ZOrderMoves == [][ZOrderStep]_vars

\* C22 witness: bring_to_front has acted on a node that has two siblings or
\* more: the node is the topmost child and its parent is marked dirty.
WitnessRaisedPastTwo ==
    /\ hist.op = "bring_to_front"
    /\ parent[hist.arg] # Nil
    /\ Len(children[parent[hist.arg]]) >= 3
    /\ children[parent[hist.arg]][Len(children[parent[hist.arg]])] = hist.arg
    /\ redraw[parent[hist.arg]]

\* c and every ancestor of c are marked dirty after the step
DirtyUpwards(c) == \A n \in {c} \cup Ancestors(parent', c) : redraw'[n]

\* C23: after reset(node), and after any add or remove on a node, any
\* z-order move of a node and any geometry setter of a node, the dirty flag
\* of that node and of every ancestor up to the root is set; reset leaves
\* the tree structure as it is.
DirtyStep ==
    /\ hist'.op \in {"reset", "bring_to_front", "send_to_back", "position", "size"} =>
         DirtyUpwards(hist'.arg)
    /\ hist'.op = "reset" => parent' = parent /\ children' = children
    /\ hist'.op = "add" =>
         \A p \in Comps, c \in Comps : Add(p, c) => DirtyUpwards(p)
    /\ hist'.op = "remove" =>
         \A p \in Comps, c \in Comps :
            (c \in Range(children[p]) /\ Remove(p, c)) => DirtyUpwards(p)

Windows == {w \in Comps : Kind(w) = "Window"}

\* the header-height threshold of hitbox_test: `self.height - hitbox_y` with
\* the hitbox_y = 0 that process_event calls it with
HeaderThreshold(w) == ui.rect[w].h - 0

\* the press of the step lies in the header of w
InHeader(w, pt) ==
    /\ is_inside(State, w, pt)
    /\ pt[2] - get_absolute_rect(State, w).y < HeaderThreshold(w)

\* C24: a primary press begins a drag of a window only when the window is
\* movable, the press lies inside it and its vertical offset from the
\* window's absolute top is below the header-height threshold; when such a
\* press reaches a movable window, the window's drag flag is set,
\* drag_offset is the press position minus the window's absolute origin,
\* the window is the last child of its parent and the event is consumed; a
\* press inside the window at or below the threshold, and any other event,
\* begins no drag.
DragStartStep ==
    \A w \in Comps :
        /\ (~ui.dragging[w] /\ ui'.dragging[w]) =>
              /\ PressStep
              /\ w \in Windows /\ ui.can_move[w]
              /\ InHeader(w, hist'.ev.pos)
        /\ (/\ PressStep
            /\ w \in Windows /\ ui.can_move[w]
            /\ w \in Range(hist'.processed)
            /\ InHeader(w, hist'.ev.pos)) =>
              /\ ui'.dragging[w]
              /\ ui'.drag_offset[w] =
                    <<hist'.ev.pos[1] - get_absolute_rect(State, w).x,
                      hist'.ev.pos[2] - get_absolute_rect(State, w).y>>
              /\ parent'[w] = parent[w]
              /\ parent[w] # Nil =>
                    /\ children'[parent[w]][Len(children'[parent[w]])] = w
                    /\ Others(children'[parent[w]], w) = Others(children[parent[w]], w)
              /\ w \in hist'.took
              /\ ui'.rect = ui.rect
        /\ (/\ PressStep
            /\ w \in Windows
            /\ is_inside(State, w, hist'.ev.pos)
            /\ ~InHeader(w, hist'.ev.pos)) =>
              ui'.dragging[w] = ui.dragging[w]

MotionStep ==
    hist'.op \in {"dispatch", "dispatch-raised"} /\ hist'.ev.type = "MOUSEMOTION"

\* the visible sibling windows of w, the ones snap_on looks at
SnapSiblings(w) ==
    IF parent[w] = Nil THEN {}
    ELSE {v \in Range(children[parent[w]]) \ {w} : v \in Windows /\ ui.visible[v]}

\* C25: while the drag flag of a window is set, every pointer motion that
\* reaches the window is consumed and sets the window's local position to
\* the event position minus drag_offset (the position it has after the step
\* when no sibling window is there to snap to); a pointer motion never
\* moves a window whose drag flag is clear.
DragMotionStep ==
    \A w \in Windows :
        /\ (MotionStep /\ ui.dragging[w] /\ w \in Range(hist'.processed)) =>
              /\ hist'.op = "dispatch"
              /\ w \in hist'.took
              /\ SnapSiblings(w) = {} =>
                    /\ ui'.rect[w].x = hist'.ev.pos[1] - ui.drag_offset[w][1]
                    /\ ui'.rect[w].y = hist'.ev.pos[2] - ui.drag_offset[w][2]
        /\ (MotionStep /\ ~ui.dragging[w]) => ui'.rect[w] = ui.rect[w]

DragMotion == [][DragMotionStep]_vars

\* the threshold of snap_on (its default argument)
threshold == 10

Abs(n) == IF n < 0 THEN 0 - n ELSE n

\* the absolute rectangle of c for the rectangles u and the parents par
AbsRect(u, par, c) == get_absolute_rect([ui |-> u, parent |-> par], c)

\* the rectangles after `self.position = event.pos - drag_offset` on w
Moved(w, pt) ==
    [ui EXCEPT !.rect[w].x = pt[1] - ui.drag_offset[w][1],
               !.rect[w].y = pt[2] - ui.drag_offset[w][2]]

\* C26: when a dragged window with one sibling window has, after the move of
\* a motion step, its left edge at distance at most the threshold from the
\* sibling's left edge, the step ends with both windows at the same
\* absolute x; when every pair of corresponding edges is farther apart than
\* the threshold, snapping leaves the window where the move put it and the
\* sibling where it was.
SnapStep ==
    \A w \in Windows, v \in Windows :
        (/\ MotionStep
         /\ ui.dragging[w] /\ w \in Range(hist'.processed)
         /\ SnapSiblings(w) = {v}) =>
            LET mine == AbsRect(Moved(w, hist'.ev.pos), parent, w)
                theirs == AbsRect(ui, parent, v)
            IN /\ hist'.op = "dispatch"
               /\ Abs(mine.x - theirs.x) <= threshold =>
                    AbsRect(ui', parent', w).x = AbsRect(ui', parent', v).x
               /\ (/\ Abs(mine.x - theirs.x) > threshold
                   /\ Abs((mine.x + mine.w) - (theirs.x + theirs.w)) > threshold
                   /\ Abs(mine.y - theirs.y) > threshold
                   /\ Abs((mine.y + mine.h) - (theirs.y + theirs.h)) > threshold) =>
                    /\ ui'.rect[w] = Moved(w, hist'.ev.pos).rect[w]
                    /\ ui'.rect[v] = ui.rect[v]

SnapThreshold == [][SnapStep]_vars

\* C27: the dispatch of an event changes the position of a window only
\* while the drag flag of that window is set (so snapping moves no window
\* that is not dragged), and once the application has switched the snapping
\* of a window off (toggle_snap), a motion that reaches the window while it
\* is dragged is consumed and leaves it exactly at the event position minus
\* drag_offset, however close the edge of a sibling window is.
SnapGatingStep ==
    \A w \in Windows :
        /\ (hist'.op \in {"dispatch", "dispatch-raised"} /\ ui'.rect[w] # ui.rect[w]) =>
              ui.dragging[w]
        /\ (/\ hist.op \in {"toggle_snap", "toggle_snap-raised"} /\ hist.arg = w
            /\ MotionStep
            /\ ui.dragging[w] /\ w \in Range(hist'.processed)) =>
              /\ hist'.op = "dispatch"
              /\ ui'.rect[w] = Moved(w, hist'.ev.pos).rect[w]

SnapGating == [][SnapGatingStep]_vars

\* the envelopes the step has appended to the queue
Appended == SubSeq(messages', Len(messages) + 1, Len(messages'))

\* C28: destroying a window posts a closing (BYE) envelope addressed to
\* BROADCAST that carries the closing window, sent from the window's
\* address; it is posted (when the queue has room) while the window still
\* has its parent, so that the call returns with the envelope queued, the
\* children cleared and the parent reference dropped.
CloseStep ==
    (/\ hist'.op \in {"destroy", "destroy-raised"}
     /\ Kind(hist'.arg) = "Window") =>
        /\ hist'.op = "destroy"
        /\ children'[hist'.arg] = <<>> /\ parent'[hist'.arg] = Nil
        /\ Len(messages) < QueueCap =>
             \E i \in 1 .. Len(Appended) :
                /\ Appended[i].rs = "M_BYE"
                /\ Appended[i].receiver = BROADCAST
                /\ Appended[i].sender = address[hist'.arg]
                /\ Appended[i].data = "self"

CloseNotification == [][CloseStep]_vars

\* C29: toggle_lock flips the movable flag of the window and of no other,
\* posts exactly one envelope (appended when the queue has room, refused by
\* post when it is full) addressed to BROADCAST, sent from the window's
\* address, with the new locked state as payload, and leaves every
\* rectangle, child list and parent as it is; a second toggle therefore
\* restores the flag.
LockStep ==
    hist'.op \in {"toggle_lock", "toggle_lock-raised"} =>
        /\ hist'.op = "toggle_lock"
        /\ \A w \in Comps :
             ui'.can_move[w] = IF w = hist'.arg THEN ~ui.can_move[w] ELSE ui.can_move[w]
        /\ IF Len(messages) < QueueCap
           THEN /\ Len(messages') = Len(messages) + 1
                /\ SubSeq(messages', 1, Len(messages)) = messages
                /\ Appended[1].receiver = BROADCAST
                /\ Appended[1].sender = address[hist'.arg]
                /\ Appended[1].rs = "M_LOCK"
                /\ Appended[1].data =
                      IF ui'.can_move[hist'.arg] THEN "unlocked" ELSE "locked"
           ELSE messages' = messages /\ hist'.ret = FALSE
        /\ ui'.rect = ui.rect
        /\ children' = children
        /\ parent' = parent

LockToggle == [][LockStep]_vars

\* C29 witness: a window was locked and unlocked again; both advertisements
\* are in the queue, the second one says unlocked, and the window is
\* movable as it was.
WitnessLockedAndBack ==
    /\ hist.op = "toggle_lock"
    /\ ui.can_move[hist.arg]
    /\ Len(messages) = 2
    /\ \A i \in 1 .. 2 : messages[i].rs = "M_LOCK" /\ messages[i].sender = address[hist.arg]
    /\ messages[1].data = "locked" /\ messages[2].data = "unlocked"

\* the kinds of the trigger calls of the record h made on c, in their order
KindsOn(h, c) ==
    LET on == SelectSeq(h.fired, LAMBDA f : f.comp = c)
    IN [i \in 1 .. Len(on) |-> on[i].kind]

\* C30: a primary press inside a node whose process_event runs on it (a
\* movable window begins a drag instead) fires, on an inactive node, focus
\* once and then click and leaves the node active, and on a node that is
\* active already click only and no focus.
FocusClickStep ==
    \A n \in Comps :
        (/\ PressStep
         /\ n \in Range(hist'.processed)
         /\ Participates(n)
         /\ is_inside(State, n, hist'.ev.pos)
         /\ ~(n \in Windows /\ ui.can_move[n])) =>
            /\ n \in hist'.took
            /\ ui'.active[n]
            /\ KindsOn(hist', n) =
                  IF ui.active[n] THEN <<"click">> ELSE <<"focus", "click">>

FocusClickSequence == [][FocusClickStep]_vars

\* C31: when an active node that is not passthrough processes a primary
\* press outside its absolute rectangle, it is inactive afterwards, blur
\* fired on it exactly once and neither click nor focus, and it reports
\* not-consumed: every sibling below it is offered the event next.
BlurOutsideStep ==
    \A n \in Comps :
        (/\ PressStep
         /\ n \in Range(hist'.processed)
         /\ ui.active[n] /\ ~ui.passthrough[n]
         /\ ~is_inside(State, n, hist'.ev.pos)) =>
            /\ ~ui'.active[n]
            /\ KindsOn(hist', n) = <<"blur">>
            /\ n \notin hist'.took
            /\ parent[n] # Nil =>
                 \A s \in Range(children[parent[n]]) :
                    Pos(children[parent[n]], s) = Pos(children[parent[n]], n) - 1 =>
                        s \in Range(hist'.offered)

BlurOnOutsidePress == [][BlurOutsideStep]_vars

\* C31 witness: an active node saw a press outside its rectangle, fired
\* blur and is inactive, and a sibling below it in the list was offered the
\* press after it.
WitnessBlurThenNext ==
    /\ hist.op = "dispatch"
    /\ hist.ev.type = "MOUSEBUTTONDOWN" /\ hist.ev.button = 1
    /\ \E n \in Comps, s \in Comps :
         /\ n \in Range(hist.processed) /\ n \notin hist.took
         /\ KindsOn(hist, n) = <<"blur">> /\ ~ui.active[n]
         /\ ~is_inside(State, n, hist.ev.pos)
         /\ parent[n] # Nil /\ parent[s] = parent[n]
         /\ Pos(children[parent[n]], s) < Pos(children[parent[n]], n)
         /\ Pos(hist.offered, n) < Pos(hist.offered, s)


\* a dispatch of a key press has just returned
KeyStep == hist'.op = "dispatch" /\ hist'.ev.type = "KEYDOWN"

\* the nodes on which the record h has a keypress trigger
KeyFiredOn(h) == {h.fired[i].comp : i \in {j \in 1 .. Len(h.fired) : h.fired[j].kind = "keypress"}}

\* C32: a key press fires keypress only on a node that is active, and that
\* node consumes it; when no visible, enabled, non-passthrough node of the
\* tree is active the dispatch reports not-consumed and no keypress fires;
\* keypress fires on at most one node per key event.
KeyRoutingStep ==
    KeyStep =>
        /\ \A n \in KeyFiredOn(hist') : ui.active[n] /\ n \in hist'.took
        /\ (\A n \in Comps : ~(Participates(n) /\ ui.active[n])) =>
               ~hist'.consumed /\ KeyFiredOn(hist') = {}
        /\ Cardinality(KeyFiredOn(hist')) <= 1

KeyRouting == [][KeyRoutingStep]_vars


\* a dispatch of a release of the primary button has just returned
ReleaseStep ==
    /\ hist'.op \in {"dispatch", "dispatch-raised"}
    /\ hist'.ev.type = "MOUSEBUTTONUP" /\ hist'.ev.button = 1

\* C33: a primary-button release that reaches a dragging window clears its
\* drag flag, is consumed by it and changes neither its position nor the
\* child list it is in; a release that reaches a window that is not
\* dragging leaves the flag clear.
DragEndStep ==
    \A w \in Windows :
        (ReleaseStep /\ w \in Range(hist'.processed)) =>
            IF ui.dragging[w]
            THEN /\ ~ui'.dragging[w]
                 /\ w \in hist'.took
                 /\ ui'.rect[w] = ui.rect[w]
                 /\ children' = children
            ELSE ~ui'.dragging[w]

DragEnd == [][DragEndStep]_vars


\* a dispatch of an input event has just returned
InputStep == hist'.op \in {"dispatch", "dispatch-raised"}

\* C39: a window whose movable flag is false has its drag flag clear, and
\* no input event changes its position.
LockedStillStep ==
    \A w \in Windows :
        /\ ~ui.can_move[w] => ~ui.dragging[w]
        /\ (InputStep /\ ~ui.can_move[w]) => ui'.rect[w] = ui.rect[w]

LockedWindowsStay == [][LockedStillStep]_vars


\* the windows whose drag flag is set
Dragging == {w \in Windows : ui.dragging[w]}

\* C38: at most one window has its drag flag set, and after a dispatch of a
\* primary-button release at the root no window has its drag flag set.
SingleDrag ==
    /\ Cardinality(Dragging) <= 1
    /\ (/\ hist.op \in {"dispatch", "dispatch-raised"}
        /\ hist.ev.type = "MOUSEBUTTONUP" /\ hist.ev.button = 1) => Dragging = {}


\* the sibling windows of w whose left (top) edge is within the threshold of
\* the left (top) edge w has after the move to pt
NearLeft(w, pt) ==
    {v \in SnapSiblings(w) :
        Abs(AbsRect(Moved(w, pt), parent, w).x - AbsRect(ui, parent, v).x) <= threshold}
NearTop(w, pt) ==
    {v \in SnapSiblings(w) :
        Abs(AbsRect(Moved(w, pt), parent, w).y - AbsRect(ui, parent, v).y) <= threshold}

\* C34: after the snapping pass of a motion step on a dragged window, when
\* the left edge the move gave it is within the threshold of the left edge
\* of at least one visible sibling window, its left edge coincides with the
\* left edge of one of those siblings, and likewise for the top edge.
SnapSeveralStep ==
    \A w \in Windows :
        (/\ MotionStep
         /\ ui.dragging[w] /\ w \in Range(hist'.processed)) =>
            /\ NearLeft(w, hist'.ev.pos) # {} =>
                 /\ hist'.op = "dispatch"
                 /\ \E v \in NearLeft(w, hist'.ev.pos) :
                      AbsRect(ui', parent', w).x = AbsRect(ui', parent', v).x
            /\ NearTop(w, hist'.ev.pos) # {} =>
                 /\ hist'.op = "dispatch"
                 /\ \E v \in NearTop(w, hist'.ev.pos) :
                      AbsRect(ui', parent', w).y = AbsRect(ui', parent', v).y

SnapSeveral == [][SnapSeveralStep]_vars


\* one iteration of the frame loop has just begun
FrameStep == hist'.op \in {"frame", "pump"} /\ pc = "idle"

\* C35: in the frame loop every envelope accepted by post has left the
\* queue before bus_freq frames have begun since its acceptance (a pump
\* takes the whole queue); pump runs in exactly the frames in which the
\* frame time accumulated since the previous pump has reached bus_freq,
\* and when pump has returned the accumulator is zero.
FrameCadenceStep ==
    /\ \A i \in 1 .. Len(messages') : Waited(hist', messages'[i].id) < bus_freq
    /\ FrameStep =>
         /\ (hist'.op = "pump") <=> (hist.since + hist'.arg >= bus_freq)
         /\ hist'.op = "pump" => messages' = <<>>
         /\ (hist'.op = "pump" /\ pc' = "idle") => bus_accumulator' = 0
    /\ (pc = "done" /\ pc' = "idle") => bus_accumulator' = 0

BoundedLatency == [][FrameCadenceStep]_vars

\* C35 witness: an envelope has waited in the queue over two frames that
\* did not pump, and pump is running now in the third.
WitnessWaitedThenPumped ==
    /\ pc = "loop"
    /\ hist.op = "pump"
    /\ \E i \in 1 .. Len(queue) : Waited(hist, queue[i].id) >= 3


\* the response codes of the replies
Replies == {"M_PONG", "M_OK", "M_BYE"}

\* a handler has just been handed a reply
ReplyStep == pc = "deliver" /\ cur.rs \in Replies

\* C36: with no post from outside the handlers, whatever the queue held at
\* the start, the queue is empty after finitely many calls of pump and stays
\* empty; a handler that is handed a reply (PONG, OK, BYE) posts nothing.
BusQuiescence ==
    /\ [][ReplyStep => messages' = messages]_vars
    /\ <>[](messages = <<>>)

\* C36 witness: pump hands over a PONG that a handler posted as the reply
\* to a PING of the queue's first content, and the queue is empty.
WitnessReplyHandedOver ==
    /\ pc = "deliver"
    /\ cur.rs = "M_PONG"
    /\ cur.id > hist.posts
    /\ Head(targets) \in {2, 3}
    /\ messages = <<>>


\* C37: after a pointer motion that reaches a dragged window with no sibling
\* window to snap to, the absolute origin of the window is the event
\* position minus drag_offset, whatever the absolute origin of its parent is.
AnchorStep ==
    \A w \in Windows :
        (/\ MotionStep
         /\ ui.dragging[w] /\ w \in Range(hist'.processed)
         /\ SnapSiblings(w) = {}) =>
            /\ AbsRect(ui', parent', w).x = hist'.ev.pos[1] - ui.drag_offset[w][1]
            /\ AbsRect(ui', parent', w).y = hist'.ev.pos[2] - ui.drag_offset[w][2]

CursorAnchoring == [][AnchorStep]_vars


\* the ids of the envelopes of a list
IdsOf(list) == {list[i].id : i \in 1 .. Len(list)}

\* C40: when a handler raises during pump, pump is left by the exception
\* and every envelope that was queued behind the failing one is in the
\* queue of the bus, where the next pump finds it.
NoLossStep ==
    (pc = "deliver" /\ pc' = "raised") => IdsOf(queue) \subseteq IdsOf(messages')

NoEnvelopeLoss == [][NoLossStep]_vars
====
